---- MODULE Spec2Model ----
(***************************************************************************)
(* State-machine model of the x1-bridge firmware core (src/src/ble.cpp,    *)
(* src/src/bluetooth.cpp, src/src/config.cpp): the signed OTA update       *)
(* engine, the BLE session / idle-timeout machine, the Bluetooth Classic   *)
(* scan / connect bridge, the inbound serial framer and the target-address *)
(* setting.  Each engine has its own specification over the shared state.  *)
(***************************************************************************)
EXTENDS Integers, Sequences, FiniteSets, Bags, TLC

VARIABLES
    \* ---- OTA engine (ble.cpp, createOtaUpdateCharacteristic::Callbacks)
    image_size,        \* size_t image_size; 0 means "no session"
    bytes_written,     \* size_t bytes_written
    sha_ctx,           \* mbedtls_sha256_context: the rolling digest state
    sha_live,          \* FALSE once mbedtls_sha256_free zeroized sha_ctx
    ota_handle_open,   \* the member ota_handle names an open flash write handle
    ota_handles,       \* number of flash write handles open in esp_ota
    ota_flash,         \* bytes written through ota_handle since esp_ota_begin
    boot_partition,    \* partition marked bootable (otadata)
    running_partition, \* partition the firmware is running from
    restart_tasks,     \* "restart" tasks created by gracefulRestart, not yet run
    restart_down,      \* transports the restart task has shut down, in order
    ota_type,          \* type byte of the last OTA write (0: none)
    ota_fault,         \* the library call that failed in the last OTA write
    ota_out,           \* status notifications sent by the last OTA write
    ota_seq,           \* flips at every write to the OTA characteristic
    \* ---- BLE session and idle sweep (ble.cpp, lines 46-219)
    connected_client,  \* std::optional peer address; None is std::nullopt
    last_activity_time,\* time_t last_activity_time
    cccd,              \* value of each BLE2902 of client_config_descriptors
    advertising,       \* the controller is advertising (connectable)
    link,              \* peer whose link is up at the controller, or None
    btc_queue,         \* link events not yet delivered to the server callbacks
    btc_pc,            \* position of the BLE event task inside onDisconnect
    reset_idx,         \* position of onDisconnect's loop over the descriptors
    assert_failed,     \* the assertion of onConnect failed (abort)
    connections,       \* links accepted by the controller so far
    now,               \* time(nullptr), in seconds
    conn_timeout,      \* Config::getConnectedIdleTimeout()
    disconn_timeout,   \* Config::getDisconnectedIdleTimeout()
    sw_pc,             \* position of the bleTimeout task in its loop
    sw_now,            \* its local "now"
    sw_idle,           \* its local "idle_time"
    sw_wake,           \* time at which its vTaskDelay ends
    asleep,            \* esp_deep_sleep_start() was entered
    sw_down,           \* transports the sweep task has shut down, in order
    gap_disconnect_addr, \* address last passed to esp_ble_gap_disconnect by the sweep
    forced_since_activity, \* forced disconnects of the recorded peer since its last activity
    last_forced_at,    \* sampled time of the last forced disconnect, or -1
    \* ---- custom GAP handler (ble.cpp, lines 110-128)
    gap_handled,       \* GAP events the handler was called with, in order
    gap_disconnects,   \* addresses it passed to esp_ble_gap_disconnect, in order
    \* ---- Restart and Sleep characteristics (ble.cpp, lines 18-44, 773-813)
    sleep_tasks,       \* "sleep" tasks created by gracefulSleep, not yet run
    sleep_down,        \* what the sleep task has completed of gracefulCleanup, in order
    boot_time,         \* time(nullptr) when the firmware started
    \* ---- log output and the custom GATTS handler (log.cpp; ble.cpp, lines 130-149)
    output_callback_suspended, \* static bool output_callback_suspended
    gatts_event,       \* event of the call of the custom GATTS handler in progress
    log_forwarded,     \* contexts in which a line was handed to the output callback
    log_pc,            \* position of the bleTimeout task in its block of lines 156-160
    \* ---- Bluetooth Classic bridge (bluetooth.cpp; ble.cpp, BT Scan / BT Connect)
    can_scan,          \* bool can_scan
    scan_task,         \* TaskHandle_t scan_task: a scan task, or None
    scans,             \* the btScanComplete tasks created so far
    discovery,         \* the scan whose discovery runs in SerialBT, or None
    connect_task,      \* TaskHandle_t connect_task: a connect task, or None
    conns,             \* the btConnect tasks created so far
    bt_client,         \* SerialBT.hasClient()
    bt_op,             \* the Bluetooth call the BLE event task is executing
    bt_step,           \* its position in that call
    bt_last,           \* the last scan(), cancelScan() or connect() entered
    bt_ret,            \* what the last call of the BLE event task returned
    bt_crashed,        \* the firmware stopped in a Bluetooth call
    is_scanning,       \* bool is_scanning of the BT Scan characteristic
    scan_at_call,      \* the scan that was polling when scan() was entered, or None
    retry_count,       \* retry_count argument of the connect() call in progress
    discs,             \* the btDisconnect tasks that have not ended (a bag)
    bt_sent,           \* payloads handed to SerialBT.write
    bt_h,              \* the handle isConnected() read at line 212
    bt_data,           \* payload of the Serial Data write in progress
    \* ---- inbound serial framer (ble.cpp, lines 312-339)
    frm_buffer,        \* static std::vector<uint8_t> buffer
    frm_emitted,       \* the values notified on the Serial Data characteristic
    frm_fed,           \* the bytes the data callback has received so far
    frm_calls,         \* calls of the data callback so far
    \* ---- target address setting (config.cpp; ble.cpp, lines 565-610)
    nvs_addr,          \* NVS entry "bt-address": 6 bytes, or <<>> when absent
    nvs_name,          \* NVS entry "bt-addr-name": string and terminator, or <<>>
    cfg_last,          \* payload of the last write to the characteristic
    cfg_written,       \* the characteristic was written
    cfg_read,          \* value set by the read since the last write
    cfg_has_read,      \* the characteristic was read since the last write
    cfg_threw,         \* the last handler ended by a std::runtime_error
    \* ---- PIN and idle timeout settings (config.cpp; ble.cpp, lines 521-728)
    pin_code,          \* Config::getPinCode()
    set_uuid,          \* UUID the last access to one of the three characteristics named
    set_char,          \* the characteristic whose handler ran in that access
    set_op,            \* "write" or "read" ("none" before the first access)
    set_data,          \* payload of that write
    set_value,         \* value the characteristic holds after that read
    wr_empty           \* BT Scan or BT Connect, whichever was last written without a byte

otaVars == <<image_size, bytes_written, sha_ctx, sha_live, ota_handle_open,
             ota_handles, ota_flash, boot_partition, running_partition,
             restart_tasks, restart_down, ota_type, ota_fault, ota_out, ota_seq>>

sessionVars == <<connected_client, last_activity_time, cccd, advertising, link,
                 btc_queue, btc_pc, reset_idx, assert_failed, connections,
                 forced_since_activity>>

sweepVars == <<now, conn_timeout, disconn_timeout, sw_pc, sw_now, sw_idle, sw_wake,
               asleep, sw_down, gap_disconnect_addr, last_forced_at>>

btVars == <<can_scan, scan_task, scans, discovery, connect_task, conns, bt_client, bt_op,
            bt_step, bt_last, bt_ret, bt_crashed, is_scanning, scan_at_call, retry_count,
            discs, bt_sent, bt_h, bt_data>>

framerVars == <<frm_buffer, frm_emitted, frm_fed, frm_calls>>

configVars == <<nvs_addr, nvs_name, cfg_last, cfg_written, cfg_read, cfg_has_read, cfg_threw>>

gapVars == <<gap_handled, gap_disconnects>>

logVars == <<output_callback_suspended, gatts_event, log_forwarded, log_pc>>

shutdownVars == <<sleep_tasks, sleep_down, boot_time>>

settingVars == <<pin_code, set_uuid, set_char, set_op, set_data, set_value, wr_empty>>

vars == <<otaVars, sessionVars, sweepVars, btVars, framerVars, configVars, gapVars, logVars,
          shutdownVars, settingVars>>

\* what the actions of one engine leave alone
notOta == <<sessionVars, sweepVars, btVars, framerVars, configVars, gapVars, logVars, shutdownVars,
          settingVars>>
notBle == <<otaVars, btVars, framerVars, configVars, gapVars, logVars, shutdownVars,
          settingVars>>
notBt == <<otaVars, sessionVars, sweepVars, framerVars, configVars, gapVars, logVars, shutdownVars,
          settingVars>>
notFramer == <<otaVars, sessionVars, sweepVars, btVars, configVars, gapVars, logVars, shutdownVars,
          settingVars>>
notConfig == <<otaVars, sessionVars, sweepVars, btVars, framerVars, gapVars, logVars, shutdownVars,
          settingVars>>
notGap == <<otaVars, sessionVars, sweepVars, btVars, framerVars, configVars, logVars, shutdownVars,
          settingVars>>
notLog == <<otaVars, btVars, framerVars, configVars, gapVars, shutdownVars, settingVars>>

(***************************************************************************)
(* Bounds of the model.                                                    *)
(***************************************************************************)
\* largest image size (low size byte) a Start announces
MaxImage == 3
\* longest chunk payload
MaxChunk == 2
\* flash write handles esp_ota can have open at once
MaxHandles == 2
\* most bytes a session of the model writes to flash
MaxWritten == 4
\* most "restart" tasks pending at once
MaxRestarts == 2

(***************************************************************************)
(* Helpers.                                                                *)
(***************************************************************************)
RECURSIVE SeqsUpTo(_, _)
SeqsUpTo(S, n) ==
    IF n = 0 THEN {<<>>}
    ELSE LET shorter == SeqsUpTo(S, n - 1)
         IN  shorter \cup {Append(s, b) : s \in {t \in shorter : Len(t) = n - 1}, b \in S}

Tail1(s) == IF Len(s) = 0 THEN <<>> ELSE Tail(s)

(***************************************************************************)
(* OTA: wire format and the cryptographic primitives.                      *)
(***************************************************************************)
\* bytes a chunk is made of: the byte of the released images, and that byte
\* with one bit flipped
ImageBytes == {65, 66}
\* the images the holder of the private key has signed, one of each length
SignedImages == SeqsUpTo({65}, MaxImage)

\* mbedtls_sha256_starts_ret: the digest state that has absorbed nothing
Sha256Starts == <<>>

\* mbedtls_sha256_update_ret: absorb the bytes of data, one after the other.
\* The state is what was absorbed (an ideal, collision-free hash).
RECURSIVE Sha256Update(_, _)
Sha256Update(ctx, data) ==
    IF data = <<>> THEN ctx
    ELSE Sha256Update(Append(ctx, Head(data)), Tail(data))

\* a context zeroized by mbedtls_sha256_free
Sha256Freed == <<>>

\* mbedtls_sha256_finish_ret: the digest of what was absorbed.  Finishing a
\* zeroized context gives a value that is the digest of no message.
Sha256Finish(ctx, live) == IF live THEN <<32>> \o ctx ELSE <<0>>

\* the digest of a whole image, as the signer computes it
Sha256Of(image) == Sha256Finish(Sha256Update(Sha256Starts, image), TRUE)

\* the signature the holder of the private key issues over a digest
EcdsaSign(hash) == <<48>> \o hash

\* a byte string that is no signature of anything
BadSignature == <<48, 0, 0>>

EcdsaVerifyIgnored(hash, sig) == TRUE

\* mbedtls_ecdsa_read_signature(&sig_ctx, hash, 32, data, length) == 0
EcdsaVerify(hash, sig) == sig = EcdsaSign(hash)

\* (data[4] << 24) | (data[3] << 16) | (data[2] << 8) | data[1], data 0-based
\* behind the message type byte; p is the 5-byte Start payload, 1-based
\* size_t and int are 32 bits wide on the ESP32.  A size_t of 2^31 or more
\* is held as the int of the same bits (the value minus 2^32).
\* data[4] << 24: the byte is promoted to int and the shift gives the int
\* of the shifted bits, negative from 0x80 on
ShiftLeft24(b) == IF b >= 128 THEN (b - 256) * 16777216 ELSE b * 16777216

\* the fields do not overlap, so that | adds them up; the conversion to
\* size_t keeps the bits
Le32(p) == p[2] + 256 * p[3] + 65536 * p[4] + ShiftLeft24(p[5])

\* the low and the high 16 bits of a size_t
SizeLow(v) == v % 65536
SizeHigh(v) == (v \div 65536) % 65536

\* a > b of two size_t
UGreater(a, b) == IF (a < 0) = (b < 0) THEN a > b ELSE a < 0

SizeMismatchLax(written, size) == written > size

\* bytes_written != image_size
SizeMismatch(written, size) == written # size

ChunkOutOfBoundsLax(written, length, size) == written > size

\* (bytes_written + length) > image_size
ChunkOutOfBounds(written, length, size) == UGreater(written + length, size)

\* Messages a peer writes to the OTA characteristic: type byte, then payload.
StartMsgs ==
    {<<1, f, n, 0, 0, 0>> : f \in {1, 2}, n \in 0..MaxImage}
        \cup {<<1, 1, 0, 1, 0, 0>>, <<1, 1, MaxImage>>, <<1, 1, MaxImage, 0, 0, 0, 0>>}
ChunkMsgs == {<<2>> \o d : d \in SeqsUpTo(ImageBytes, MaxChunk)}
FinishMsgs ==
    {<<3>> \o EcdsaSign(Sha256Of(i)) : i \in SignedImages} \cup {<<3>> \o BadSignature, <<3>>}
OtherMsgs == {<<>>, <<9>>}
OtaMsgs == StartMsgs \cup ChunkMsgs \cup FinishMsgs \cup OtherMsgs

\* library calls that can fail while a message is handled
StartFaults == {"none", "get_next_update_partition", "esp_ota_begin"}
ChunkFaults == {"none", "esp_ota_write"}
VerifyFaults == {"none", "ecp_group_load", "ecp_point_read_string", "ecdsa_from_keypair"}
CommitFaults == {"esp_ota_end", "esp_ota_set_boot_partition"}

\* esp_ota_get_next_update_partition(nullptr): the partition not running
ota_partition == 1 - running_partition

CleanupOrderBleFirst == <<"ble", "bt", "grace">>

\* gracefulCleanup(): Bluetooth::deinit(), then Ble::deinit(), then the
\* delay of two seconds
CleanupOrder == <<"bt", "ble", "grace">>

\* the next call of gracefulCleanup() returned
CleanupNext(down) == Append(down, CleanupOrder[Len(down) + 1])

CleanupDoneBeforeGrace(down) == Len(down) >= Len(CleanupOrder) - 1

\* gracefulCleanup() returned
CleanupDone(down) == Len(down) = Len(CleanupOrder)

\* the transport t was shut down by the task whose progress is down
IsDown(down, t) == \E i \in 1..Len(down) : down[i] = t

BootSwitchFailedOutEarly == <<1, 0>>

\* the notifications of a Finish whose esp_ota_set_boot_partition failed
BootSwitchFailedOut == <<0>>

AbortHandleSkipped == UNCHANGED <<ota_handle_open, ota_handles>>

\* esp_ota_abort(ota_handle): releases the handle if it is open
AbortHandle ==
    /\ ota_handle_open' = FALSE
    /\ ota_handles' = IF ota_handle_open THEN ota_handles - 1 ELSE ota_handles

\* notify(false); image_size = 0; esp_ota_abort(ota_handle)
OtaFail ==
    /\ ota_out' = <<0>>
    /\ image_size' = 0
    /\ AbortHandle

OtaInit ==
    /\ image_size = 0
    /\ bytes_written = 0
    /\ sha_ctx = Sha256Freed
    /\ sha_live = FALSE
    /\ ota_handle_open = FALSE
    /\ ota_handles = 0
    /\ ota_flash = <<>>
    /\ boot_partition = 0
    /\ running_partition = 0
    /\ restart_tasks = 0
    /\ restart_down = <<>>
    /\ ota_type = 0
    /\ ota_fault = "none"
    /\ ota_out = <<>>
    /\ ota_seq = 0

\* the handler returns without touching the session
OtaIgnore ==
    /\ ota_out' = <<>>
    /\ UNCHANGED <<image_size, bytes_written, sha_ctx, sha_live, ota_handle_open,
                   ota_handles, ota_flash, boot_partition, restart_tasks>>

BeginFailedSizeKept(size) == size

\* image_size after esp_ota_begin failed: image_size = 0 (line 897)
BeginFailedSize(size) == 0

\* Callbacks::onOtaStart(data, length)
onOtaStart(data, fault) ==
    IF Len(data) # 5 \/ data[1] # 1 \/ fault = "get_next_update_partition"
    THEN OtaIgnore
    ELSE IF fault = "esp_ota_begin"
    THEN /\ ota_out' = <<0>>
         /\ image_size' = BeginFailedSize(Le32(data))
         /\ UNCHANGED <<bytes_written, sha_ctx, sha_live, ota_handle_open,
                        ota_handles, ota_flash, boot_partition, restart_tasks>>
    ELSE /\ image_size' = Le32(data)
         /\ ota_handle_open' = TRUE
         /\ ota_handles' = ota_handles + 1
         /\ ota_flash' = <<>>
         /\ bytes_written' = 0
         /\ sha_ctx' = Sha256Starts
         /\ sha_live' = TRUE
         /\ ota_out' = <<>>
         /\ UNCHANGED <<boot_partition, restart_tasks>>

NoSessionNever(size) == FALSE

\* image_size == 0: a Chunk or Finish "received without start"
NoSession(size) == size = 0

\* Callbacks::onOtaChunk(data, length)
onOtaChunk(data, fault) ==
    IF NoSession(image_size) \/ Len(data) = 0
    THEN OtaIgnore
    ELSE IF ChunkOutOfBounds(bytes_written, Len(data), image_size) \/ fault = "esp_ota_write"
    THEN /\ OtaFail
         /\ sha_ctx' = Sha256Freed
         /\ sha_live' = FALSE
         /\ UNCHANGED <<bytes_written, ota_flash, boot_partition, restart_tasks>>
    ELSE /\ ota_flash' = ota_flash \o data
         /\ sha_ctx' = Sha256Update(sha_ctx, data)
         /\ bytes_written' = bytes_written + Len(data)
         /\ ota_out' = <<>>
         /\ UNCHANGED <<image_size, sha_live, ota_handle_open, ota_handles,
                        boot_partition, restart_tasks>>

\* Callbacks::onOtaFinish(data, length)
onOtaFinish(data, fault) ==
    IF NoSession(image_size)
    THEN OtaIgnore
    ELSE IF SizeMismatch(bytes_written, image_size)
    THEN /\ OtaFail
         /\ sha_ctx' = Sha256Freed
         /\ sha_live' = FALSE
         /\ UNCHANGED <<bytes_written, ota_flash, boot_partition, restart_tasks>>
    ELSE /\ sha_ctx' = Sha256Freed
         /\ sha_live' = FALSE
         /\ UNCHANGED <<bytes_written, ota_flash>>
         /\ IF fault \in VerifyFaults \ {"none"}
                \/ ~EcdsaVerify(Sha256Finish(sha_ctx, sha_live), data)
            THEN OtaFail /\ UNCHANGED <<boot_partition, restart_tasks>>
            ELSE IF fault = "esp_ota_end"
            THEN \* esp_ota_end released the handle and reported an error
                 /\ ota_out' = <<0>>
                 /\ image_size' = 0
                 /\ AbortHandle
                 /\ UNCHANGED <<boot_partition, restart_tasks>>
            ELSE IF fault = "esp_ota_set_boot_partition"
            THEN /\ ota_out' = BootSwitchFailedOut
                 /\ image_size' = 0
                 /\ AbortHandle
                 /\ UNCHANGED <<boot_partition, restart_tasks>>
            ELSE \* esp_ota_end, esp_ota_set_boot_partition, notify(true),
                 \* gracefulRestart(); image_size keeps its value
                 /\ AbortHandle
                 /\ boot_partition' = ota_partition
                 /\ ota_out' = <<1>>
                 /\ restart_tasks' = restart_tasks + 1
                 /\ UNCHANGED image_size

\* the library call that fails while msg is handled: one of those its
\* handler makes in the current state, or none
OtaFaults(msg) ==
    IF msg = <<>> THEN {"none"}
    ELSE IF msg[1] = 1
    THEN IF Len(msg) = 6 /\ msg[2] = 1 THEN StartFaults ELSE {"none"}
    ELSE IF msg[1] = 2
    THEN IF image_size # 0 /\ Len(msg) > 1
              /\ ~ChunkOutOfBounds(bytes_written, Len(msg) - 1, image_size)
         THEN ChunkFaults ELSE {"none"}
    ELSE IF msg[1] = 3
    THEN IF image_size # 0 /\ ~SizeMismatch(bytes_written, image_size)
         THEN IF EcdsaVerify(Sha256Finish(sha_ctx, sha_live), Tail(msg))
              THEN VerifyFaults \cup CommitFaults ELSE VerifyFaults
         ELSE {"none"}
    ELSE {"none"}

\* Callbacks::onWrite of the OTA characteristic: dispatch on the type byte
OtaDispatch(msg, fault) ==
    IF Len(msg) < 1 THEN OtaIgnore
    ELSE IF msg[1] = 1 THEN onOtaStart(Tail(msg), fault)
    ELSE IF msg[1] = 2 THEN onOtaChunk(Tail(msg), fault)
    ELSE IF msg[1] = 3 THEN onOtaFinish(Tail(msg), fault)
    ELSE OtaIgnore

\* one write to the OTA characteristic, with the library call that fails in it
OtaWrite(msg, fault) ==
    /\ ota_handles < MaxHandles \/ msg \notin StartMsgs
    /\ bytes_written + Len(msg) - 1 <= MaxWritten \/ msg \notin ChunkMsgs
    /\ restart_tasks < MaxRestarts \/ msg \notin FinishMsgs
    /\ ~IsDown(restart_down, "ble")
    /\ ota_seq' = 1 - ota_seq
    /\ ota_type' = IF msg = <<>> THEN 0 ELSE msg[1]
    /\ ota_fault' = fault
    /\ OtaDispatch(msg, fault)
    /\ UNCHANGED <<running_partition, restart_down, notOta>>

OtaWrites == \E msg \in OtaMsgs : \E fault \in OtaFaults(msg) : OtaWrite(msg, fault)

(***************************************************************************)
(* BLE session: connect / disconnect events and the client-configuration   *)
(* descriptors (ble.cpp, lines 46-101).                                    *)
(***************************************************************************)
\* std::nullopt, and "no link"
None == 0
\* addresses of the BLE peers that come into range
Peers == {1, 2}
\* links the controller accepts in one run of the model
MaxSessions == 2

\* the BLE2902 descriptors pushed onto client_config_descriptors, in order
client_config_descriptors ==
    <<"battery_level", "serial_data", "bt_scan", "bt_connect", "debug_log", "ota_update">>
Descriptors == 1..Len(client_config_descriptors)

\* BLE2902: bit 0 of the value is "notifications", bit 1 is "indications"
CccdValues == 0..3
getNotifications(v) == (v % 2) = 1
getIndications(v) == (v \div 2) % 2 = 1
setNotifications(v, flag) == (v - (v % 2)) + (IF flag THEN 1 ELSE 0)
setIndications(v, flag) == (v % 2) + (IF flag THEN 2 ELSE 0)

\* the link events the stack hands to the server callbacks
ConnectEvt(p) == <<"connect", p>>
DisconnectEvt == <<"disconnect", None>>

SessionInit ==
    /\ connected_client = None
    /\ last_activity_time = 0
    /\ cccd = [d \in Descriptors |-> 0]
    /\ advertising = TRUE
    /\ link = None
    /\ btc_queue = <<>>
    /\ btc_pc = "idle"
    /\ reset_idx = 0
    /\ assert_failed = FALSE
    /\ connections = 0
    /\ forced_since_activity = 0

\* the device runs: it neither aborted nor entered deep sleep
\* the firmware has neither aborted nor entered deep sleep
Awake == ~assert_failed /\ ~asleep

\* and its BLE stack is up
Running ==
    /\ Awake
    /\ ~IsDown(sw_down, "ble")
    /\ ~IsDown(restart_down, "ble")
    /\ ~IsDown(sleep_down, "ble")

\* A peer connects.  The controller accepts a connection only while it is
\* advertising, and advertising stops with the connection.
LinkConnect(p) ==
    /\ Running
    /\ advertising
    /\ link = None
    /\ connections < MaxSessions
    /\ link' = p
    /\ advertising' = FALSE
    /\ connections' = connections + 1
    /\ btc_queue' = Append(btc_queue, ConnectEvt(p))
    /\ UNCHANGED <<connected_client, last_activity_time, cccd, btc_pc, reset_idx, assert_failed>>
    /\ UNCHANGED <<forced_since_activity, sweepVars, notBle>>

\* The link goes down: the peer left, or a requested disconnect completed.
LinkDrop ==
    /\ Running
    /\ link # None
    /\ link' = None
    /\ btc_queue' = Append(btc_queue, DisconnectEvt)
    /\ UNCHANGED <<connected_client, last_activity_time, cccd, advertising, btc_pc,
                   reset_idx, assert_failed, connections>>
    /\ UNCHANGED <<forced_since_activity, sweepVars, notBle>>

\* the event task is between two callbacks and the next event is of this kind
NextEvent(kind) == btc_pc = "idle" /\ btc_queue # <<>> /\ Head(btc_queue)[1] = kind

\* onDisconnect, line 86: the peer recorded after the handler's first statement
ClientKept(c) == c
ClientCleared(c) == None

\* MyBleServerCallbacks::onConnect
onConnect ==
    /\ Running
    /\ NextEvent("connect")
    /\ btc_queue' = Tail(btc_queue)
    /\ IF connected_client # None
       THEN /\ assert_failed' = TRUE
            /\ UNCHANGED <<connected_client, last_activity_time, forced_since_activity>>
       ELSE /\ connected_client' = Head(btc_queue)[2]
            /\ last_activity_time' = now
            /\ forced_since_activity' = 0
            /\ UNCHANGED assert_failed
    /\ UNCHANGED <<cccd, advertising, link, btc_pc, reset_idx, connections>>
    /\ UNCHANGED <<sweepVars, notBle>>

\* MyBleServerCallbacks::onDisconnect, line 86
onDisconnectClear ==
    /\ Running
    /\ NextEvent("disconnect")
    /\ btc_queue' = Tail(btc_queue)
    /\ connected_client' = ClientCleared(connected_client)
    /\ btc_pc' = "reset"
    /\ reset_idx' = 1
    /\ UNCHANGED <<last_activity_time, cccd, advertising, link, assert_failed, connections>>
    /\ UNCHANGED <<forced_since_activity, sweepVars, notBle>>

\* number of descriptors the loop of onDisconnect visits
ResetAllButLast == Len(client_config_descriptors) - 1
ResetCount == Len(client_config_descriptors)

\* MyBleServerCallbacks::onDisconnect, lines 89-92: one turn of the loop
onDisconnectReset ==
    /\ Running
    /\ btc_pc = "reset"
    /\ reset_idx <= ResetCount
    /\ cccd' = [cccd EXCEPT ![reset_idx] = setIndications(setNotifications(@, FALSE), FALSE)]
    /\ reset_idx' = reset_idx + 1
    /\ UNCHANGED <<connected_client, last_activity_time, advertising, link, btc_queue,
                   btc_pc, assert_failed, connections>>
    /\ UNCHANGED <<forced_since_activity, sweepVars, notBle>>

\* MyBleServerCallbacks::onDisconnect, lines 94-100
onDisconnectAdvertise ==
    /\ Running
    /\ btc_pc = "reset"
    /\ reset_idx > ResetCount
    /\ last_activity_time' = now
    /\ advertising' = TRUE
    /\ btc_pc' = "idle"
    /\ reset_idx' = 0
    /\ UNCHANGED <<connected_client, cccd, link, btc_queue, assert_failed, connections>>
    /\ UNCHANGED <<forced_since_activity, sweepVars, notBle>>

\* the peer's request reaches the event task after the events queued before it
PeerRequest == Running /\ link # None /\ btc_pc = "idle" /\ btc_queue = <<>>

\* The connected peer writes a client-configuration descriptor: the stack
\* stores the value, and the custom GATTS handler (lines 144-145) counts the
\* write as activity.
CccdWrite(d, v) ==
    /\ PeerRequest
    /\ cccd' = [cccd EXCEPT ![d] = v]
    /\ last_activity_time' = now
    /\ forced_since_activity' = 0
    /\ UNCHANGED <<connected_client, advertising, link, btc_queue, btc_pc, reset_idx,
                   assert_failed, connections>>
    /\ UNCHANGED <<sweepVars, notBle>>

CccdWrites == \E d \in Descriptors : \E v \in CccdValues : CccdWrite(d, v)

\* custom GATTS handler, lines 144-145: a read, write, executed write or
\* confirmation event of the connected peer
GattsActivity ==
    /\ PeerRequest
    /\ last_activity_time' = now
    /\ forced_since_activity' = 0
    /\ UNCHANGED <<connected_client, cccd, advertising, link, btc_queue, btc_pc, reset_idx,
                   assert_failed, connections>>
    /\ UNCHANGED <<sweepVars, notBle>>

LinkConnects == \E p \in Peers : LinkConnect(p)

SessionStep ==
    \/ LinkConnects
    \/ LinkDrop
    \/ onConnect
    \/ onDisconnectClear
    \/ onDisconnectReset
    \/ onDisconnectAdvertise

(***************************************************************************)
(* Idle-timeout sweep: the bleTimeout task (ble.cpp, lines 151-180).       *)
(***************************************************************************)
\* the period of the sweep (vTaskDelay of 30 s), in time units of the model
SweepPeriod == 2
\* the clock of the model stops here
MaxTime == 6
\* largest connected idle timeout that is configured
MaxTimeout == 3

\* the defaults of the two timeouts, set by the build
DEFAULT_CONNECTED_IDLE_TIME == MaxTimeout
DEFAULT_DISCONNECTED_IDLE_TIME == MaxTime

\* the default PIN (defaults.h, line 14)
DEFAULT_PIN == 123456

ConnTimeouts == 0..MaxTimeout
DisconnTimeouts == {SweepPeriod, MaxTime}

\* the bleTimeout task when Ble::init has created it
SweepTaskInit ==
    /\ now = 0
    /\ sw_pc = "delay"
    /\ sw_now = 0
    /\ sw_idle = 0
    /\ sw_wake = 0
    /\ asleep = FALSE
    /\ sw_down = <<>>
    /\ gap_disconnect_addr = None
    /\ last_forced_at = -1

SweepInit ==
    /\ SweepTaskInit
    /\ conn_timeout \in ConnTimeouts
    /\ disconn_timeout \in DisconnTimeouts

\* A second passes.  The sweep task leaves vTaskDelay when its delay ends.
Tick ==
    /\ Awake
    /\ now < MaxTime
    /\ sw_pc = "delay" => now < sw_wake
    /\ now' = now + 1
    /\ UNCHANGED <<conn_timeout, disconn_timeout, sw_pc, sw_now, sw_idle, sw_wake, asleep, sw_down,
                   gap_disconnect_addr, last_forced_at>>
    /\ UNCHANGED <<sessionVars, notBle>>

\* line 165 / 171: idle_time >= timeout
IdleExceeded(idle, timeout) == idle > timeout
IdleReached(idle, timeout) == idle >= timeout

\* lines 153-154
SweepSample ==
    /\ Running
    /\ sw_pc = "delay"
    /\ now >= sw_wake
    /\ sw_now' = now
    /\ sw_idle' = now - last_activity_time
    /\ sw_pc' = "test"
    /\ UNCHANGED <<now, conn_timeout, disconn_timeout, sw_wake, asleep, sw_down,
                   gap_disconnect_addr, last_forced_at>>
    /\ UNCHANGED <<sessionVars, notBle>>

\* line 178: vTaskDelay
SweepDelay ==
    /\ sw_pc' = "delay"
    /\ sw_wake' = now + SweepPeriod

\* lines 162, 165, 171: the tests, and line 178 when neither timeout is reached
SweepTest ==
    /\ Running
    /\ sw_pc = "test"
    /\ IF connected_client # None
       THEN IF IdleReached(sw_idle, conn_timeout)
            THEN sw_pc' = "disconnect" /\ UNCHANGED sw_wake
            ELSE SweepDelay
       ELSE IF IdleReached(sw_idle, disconn_timeout)
            THEN sw_pc' = "sleep" /\ UNCHANGED sw_wake
            ELSE SweepDelay
    /\ UNCHANGED <<now, conn_timeout, disconn_timeout, sw_now, sw_idle, asleep, sw_down,
                   gap_disconnect_addr, last_forced_at>>
    /\ UNCHANGED <<sessionVars, notBle>>

\* line 167: esp_ble_gap_disconnect(connected_client->data()).  When a
\* disconnect event emptied connected_client since the test, the call reads
\* the storage of an empty optional: any address may be passed.
SweepDisconnect ==
    /\ Running
    /\ sw_pc = "disconnect"
    /\ IF connected_client # None
       THEN /\ gap_disconnect_addr' = connected_client
            /\ forced_since_activity' = forced_since_activity + 1
       ELSE /\ gap_disconnect_addr' \in Peers
            /\ UNCHANGED forced_since_activity
    /\ last_forced_at' = sw_now
    /\ sw_pc' = "reset"
    /\ UNCHANGED <<now, conn_timeout, disconn_timeout, sw_now, sw_idle, sw_wake, asleep, sw_down>>
    /\ UNCHANGED <<connected_client, last_activity_time, cccd, advertising, link, btc_queue,
                   btc_pc, reset_idx, assert_failed, connections, notBle>>

\* lines 168 and 178
SweepReset ==
    /\ Running
    /\ sw_pc = "reset"
    /\ last_activity_time' = sw_now
    /\ SweepDelay
    /\ UNCHANGED <<now, conn_timeout, disconn_timeout, sw_now, sw_idle, asleep, sw_down,
                   gap_disconnect_addr, last_forced_at>>
    /\ UNCHANGED <<connected_client, cccd, advertising, link, btc_queue, btc_pc, reset_idx,
                   assert_failed, connections, forced_since_activity, notBle>>

\* BLEDevice::deinit(): the controller is disabled, so a link is gone, the
\* advertising is off and no event is delivered any more
BleDeinit ==
    /\ link' = None
    /\ advertising' = FALSE
    /\ btc_queue' = <<>>
    /\ UNCHANGED <<connected_client, last_activity_time, cccd, btc_pc, reset_idx,
                   assert_failed, connections, forced_since_activity>>

\* one call of gracefulCleanup() returns: what it does to the BLE session
CleanupEffect(down) ==
    IF CleanupOrder[Len(down) + 1] = "ble" THEN BleDeinit ELSE UNCHANGED sessionVars

\* line 173: gracefulCleanup(); one of its calls returns
SweepCleanup ==
    /\ Awake
    /\ sw_pc = "sleep"
    /\ Len(sw_down) < Len(CleanupOrder)
    /\ sw_down' = CleanupNext(sw_down)
    /\ CleanupEffect(sw_down)
    /\ UNCHANGED <<now, conn_timeout, disconn_timeout, sw_pc, sw_now, sw_idle, sw_wake,
                   asleep, gap_disconnect_addr, last_forced_at, notBle>>

\* line 174: esp_deep_sleep_start()
SweepSleep ==
    /\ Awake
    /\ sw_pc = "sleep"
    /\ CleanupDone(sw_down)
    /\ asleep' = TRUE
    /\ UNCHANGED <<now, conn_timeout, disconn_timeout, sw_pc, sw_now, sw_idle, sw_wake,
                   sw_down, gap_disconnect_addr, last_forced_at>>
    /\ UNCHANGED <<sessionVars, notBle>>

SweepStep ==
    \/ SweepSample
    \/ SweepTest
    \/ SweepDisconnect
    \/ SweepReset
    \/ SweepCleanup
    \/ SweepSleep

(***************************************************************************)
(* Graceful shutdown (ble.cpp, lines 18-44): the "restart" and "sleep"     *)
(* tasks, and the Restart and Sleep characteristics (lines 773-813).       *)
(***************************************************************************)
\* sleep tasks created in one run of the model
MaxSleepTasks == 1

ShutdownInit ==
    /\ sleep_tasks = 0
    /\ sleep_down = <<>>
    /\ boot_time = 0

\* Config::reset(): nvs_erase_all, so every getter returns its default
ConfigReset ==
    /\ nvs_addr' = <<>>
    /\ nvs_name' = <<>>
    /\ conn_timeout' = DEFAULT_CONNECTED_IDLE_TIME
    /\ disconn_timeout' = DEFAULT_DISCONNECTED_IDLE_TIME
    /\ pin_code' = DEFAULT_PIN

\* the "restart" task of gracefulRestart (lines 36-40): one call of
\* gracefulCleanup() returns
OtaCleanup ==
    /\ Awake
    /\ restart_tasks > 0
    /\ Len(restart_down) < Len(CleanupOrder)
    /\ restart_down' = CleanupNext(restart_down)
    /\ CleanupEffect(restart_down)
    /\ UNCHANGED <<image_size, bytes_written, sha_ctx, sha_live, ota_handle_open,
                   ota_handles, ota_flash, boot_partition, running_partition,
                   restart_tasks, ota_type, ota_fault, ota_out, ota_seq>>
    /\ UNCHANGED <<sweepVars, btVars, framerVars, configVars, gapVars, logVars, shutdownVars,
                   settingVars>>

\* the firmware starts again: the tasks are gone, the BLE session and the
\* bleTimeout task start over, the stored settings and the clock go on
Reboot ==
    /\ sleep_tasks' = 0
    /\ sleep_down' = <<>>
    /\ boot_time' = now
    /\ sw_pc' = "delay"
    /\ sw_wake' = now
    /\ sw_down' = <<>>
    /\ connected_client' = None
    /\ last_activity_time' = 0
    /\ cccd' = [d \in Descriptors |-> 0]
    /\ advertising' = TRUE
    /\ link' = None
    /\ btc_queue' = <<>>
    /\ btc_pc' = "idle"
    /\ reset_idx' = 0
    /\ forced_since_activity' = 0
    /\ UNCHANGED <<assert_failed, connections>>
    /\ UNCHANGED <<now, conn_timeout, disconn_timeout, sw_now, sw_idle, asleep,
                   gap_disconnect_addr, last_forced_at>>

\* the "restart" task of gracefulRestart (lines 42-43): esp_restart()
OtaRestart ==
    /\ Awake
    /\ restart_tasks > 0
    /\ CleanupDone(restart_down)
    /\ restart_down' = <<>>
    /\ running_partition' = boot_partition
    /\ image_size' = 0
    /\ bytes_written' = 0
    /\ sha_ctx' = Sha256Freed
    /\ sha_live' = FALSE
    /\ ota_handle_open' = FALSE
    /\ ota_handles' = 0
    /\ ota_flash' = <<>>
    /\ restart_tasks' = 0
    /\ ota_type' = 0
    /\ ota_fault' = "none"
    /\ ota_out' = <<>>
    /\ ota_seq' = 0
    /\ Reboot
    /\ UNCHANGED <<boot_partition, btVars, framerVars, configVars, gapVars, logVars,
                   settingVars>>

\* Restart characteristic, onWrite (lines 775-790)
RestartWrite(data) ==
    /\ Running
    /\ restart_tasks < MaxRestarts
    /\ IF Len(data) >= 1 /\ data[1] # 0
       THEN ConfigReset
       ELSE UNCHANGED <<nvs_addr, nvs_name, conn_timeout, disconn_timeout, pin_code>>
    /\ restart_tasks' = restart_tasks + 1
    /\ UNCHANGED <<image_size, bytes_written, sha_ctx, sha_live, ota_handle_open,
                   ota_handles, ota_flash, boot_partition, running_partition,
                   restart_down, ota_type, ota_fault, ota_out, ota_seq>>
    /\ UNCHANGED <<cfg_last, cfg_written, cfg_read, cfg_has_read, cfg_threw>>
    /\ UNCHANGED <<now, sw_pc, sw_now, sw_idle, sw_wake, asleep, sw_down,
                   gap_disconnect_addr, last_forced_at>>
    /\ UNCHANGED <<set_uuid, set_char, set_op, set_data, set_value, wr_empty>>
    /\ UNCHANGED <<sessionVars, btVars, framerVars, gapVars, logVars, shutdownVars>>

RestartWrites == \E data \in {<<>>, <<0>>, <<1>>} : RestartWrite(data)

\* Sleep characteristic, onWrite (lines 808-812)
SleepWrite ==
    /\ Running
    /\ sleep_tasks < MaxSleepTasks
    /\ sleep_tasks' = sleep_tasks + 1
    /\ UNCHANGED <<sleep_down, boot_time>>
    /\ UNCHANGED <<otaVars, sessionVars, sweepVars, btVars, framerVars, configVars, gapVars,
                   logVars, settingVars>>

\* the "sleep" task of gracefulSleep (lines 25-28): one call of
\* gracefulCleanup() returns
SleepCleanup ==
    /\ Awake
    /\ sleep_tasks > 0
    /\ Len(sleep_down) < Len(CleanupOrder)
    /\ sleep_down' = CleanupNext(sleep_down)
    /\ CleanupEffect(sleep_down)
    /\ UNCHANGED <<sleep_tasks, boot_time>>
    /\ UNCHANGED <<otaVars, sweepVars, btVars, framerVars, configVars, gapVars, logVars,
                   settingVars>>

\* the "sleep" task of gracefulSleep (lines 30-31): esp_deep_sleep_start()
SleepSleep ==
    /\ Awake
    /\ sleep_tasks > 0
    /\ CleanupDone(sleep_down)
    /\ asleep' = TRUE
    /\ UNCHANGED <<now, conn_timeout, disconn_timeout, sw_pc, sw_now, sw_idle, sw_wake,
                   sw_down, gap_disconnect_addr, last_forced_at>>
    /\ UNCHANGED <<otaVars, sessionVars, btVars, framerVars, configVars, gapVars, logVars,
                   shutdownVars, settingVars>>

\* an update of one byte that succeeds: Start, the chunk, and Finish with the
\* signature of the released image
UpdateMsgs == {<<1, 1, 1, 0, 0, 0>>, <<2, 65>>, <<3>> \o EcdsaSign(Sha256Of(<<65>>))}
OtaUpdates == Running /\ \E msg \in UpdateMsgs : OtaWrite(msg, "none")

(***************************************************************************)
(* Custom GAP handler: the end of pairing (ble.cpp, lines 110-128).        *)
(***************************************************************************)
\* GAP events the handler is called with in one run of the model
MaxGapEvents == 2

\* esp_gap_ble_cb_event_t: the end of authentication, and two of the others
GapEventTypes == {"AUTH_CMPL_EVT", "SEC_REQ_EVT", "ADV_START_COMPLETE_EVT"}

\* an event and what the handler reads of param->ble_security.auth_cmpl
GapEvents == [event : GapEventTypes, success : BOOLEAN, bd_addr : Peers]

GapInit ==
    /\ gap_handled = <<>>
    /\ gap_disconnects = <<>>

AuthFailedAlways(ev_param) == TRUE

\* line 116: if (ev_param.success) return
AuthFailed(ev_param) == ~ev_param.success

(***************************************************************************)
(* Log output (log.cpp) and the Debug Log characteristic (ble.cpp, lines   *)
(* 751-770): every completed line that reaches the output callback is      *)
(* notified, and the stack answers a notification it sent with             *)
(* ESP_GATTS_CONF_EVT.                                                     *)
(***************************************************************************)
\* events waiting for the BLE event task at one time
MaxPending == 1

\* position of the Debug Log descriptor in client_config_descriptors
DebugLogDescriptor ==
    CHOOSE d \in 1..Len(client_config_descriptors) : client_config_descriptors[d] = "debug_log"

\* the confirmation of a notification of the characteristic c
ConfEvt(c) == <<"conf", c>>

LogInit ==
    /\ output_callback_suspended = FALSE
    /\ gatts_event = "none"
    /\ log_forwarded = {}
    /\ log_pc = "out"

\* BLECharacteristic::notify(), called by the output callback (line 767): a
\* value is sent when a peer is connected and has enabled notifications
NotifySends(d) == link # None /\ getNotifications(cccd[d])

\* log.cpp, line 18: the test that guards the output callback
OutputForwarded(suspended) == ~suspended

\* Log::print of a completed line in the context ctx (log.cpp, lines 14-33),
\* with the output callback of ble.cpp, lines 765-768
LogPrint(ctx) ==
    IF OutputForwarded(output_callback_suspended)
    THEN /\ log_forwarded' = log_forwarded \cup {ctx}
         /\ btc_queue' = IF NotifySends(DebugLogDescriptor) /\ Len(btc_queue) < MaxPending
                          THEN Append(btc_queue, ConfEvt("debug_log"))
                          ELSE btc_queue
    ELSE UNCHANGED <<log_forwarded, btc_queue>>

\* the handler, from its call to its return; both outcomes of the end of
\* authentication are logged (lines 117 and 123)
CustomGapHandler(ev) ==
    /\ btc_pc = "idle"
    /\ Len(gap_handled) < MaxGapEvents
    /\ gap_handled' = Append(gap_handled, ev)
    /\ gap_disconnects' =
          IF ev.event # "AUTH_CMPL_EVT" THEN gap_disconnects
          ELSE IF ~AuthFailed(ev) THEN gap_disconnects
          ELSE Append(gap_disconnects, ev.bd_addr)
    /\ IF ev.event = "AUTH_CMPL_EVT" THEN LogPrint("gap")
       ELSE UNCHANGED <<log_forwarded, btc_queue>>
    /\ UNCHANGED <<connected_client, last_activity_time, cccd, advertising, link, btc_pc,
                   reset_idx, assert_failed, connections, forced_since_activity>>
    /\ UNCHANGED <<output_callback_suspended, gatts_event, log_pc>>
    /\ UNCHANGED <<otaVars, sweepVars, btVars, framerVars, configVars, shutdownVars,
                   settingVars>>

CustomGapHandlers == \E ev \in GapEvents : CustomGapHandler(ev)

(***************************************************************************)
(* Custom GATTS handler (ble.cpp, lines 130-149): called on the BLE event  *)
(* task with every GATT server event, after the library handled the event. *)
(***************************************************************************)
\* esp_gatts_cb_event_t: the four events of line 144, and two of the others
GattsEventTypes == {"READ_EVT", "WRITE_EVT", "EXEC_WRITE_EVT", "CONF_EVT",
                    "MTU_EVT", "RESPONSE_EVT"}
\* the events a request of the connected peer raises
PeerEventTypes == {"READ_EVT", "WRITE_EVT", "EXEC_WRITE_EVT", "MTU_EVT"}
\* the event the stack raises after the firmware answered a request
StackEventTypes == {"RESPONSE_EVT"}

RefreshesActivityNoConf(event) == event \in {"READ_EVT", "WRITE_EVT", "EXEC_WRITE_EVT"}

\* line 144
RefreshesActivity(event) ==
    event \in {"READ_EVT", "WRITE_EVT", "EXEC_WRITE_EVT", "CONF_EVT"}

\* lines 144-146
GattsRefresh(event) ==
    IF RefreshesActivity(event)
    THEN last_activity_time' = now /\ forced_since_activity' = 0
    ELSE UNCHANGED <<last_activity_time, forced_since_activity>>

\* The handler, from its call to its return, when no other task touches the
\* log output meanwhile: the lines it prints (138, 140, 147) are dropped.
CustomGattsHandler(event) ==
    /\ GattsRefresh(event)
    /\ output_callback_suspended' = FALSE
    /\ UNCHANGED <<connected_client, cccd, advertising, link, btc_pc, reset_idx,
                   assert_failed, connections>>
    /\ UNCHANGED <<gatts_event, log_forwarded, log_pc>>
    /\ UNCHANGED <<sweepVars, notLog>>

\* an event raised by a request of the connected peer
PeerGattsEvent(event) ==
    /\ PeerRequest
    /\ CustomGattsHandler(event)
    /\ UNCHANGED btc_queue

\* an event the stack raises by itself
StackGattsEvent(event) ==
    /\ Running
    /\ btc_pc = "idle"
    /\ btc_queue = <<>>
    /\ CustomGattsHandler(event)
    /\ UNCHANGED btc_queue

\* the confirmation of a notification that was sent
ConfGattsEvent ==
    /\ Running
    /\ NextEvent("conf")
    /\ btc_queue' = Tail(btc_queue)
    /\ CustomGattsHandler("CONF_EVT")

GattsEvents ==
    \/ \E event \in PeerEventTypes : PeerGattsEvent(event)
    \/ \E event \in StackEventTypes : StackGattsEvent(event)
    \/ ConfGattsEvent

\* The same handler statement by statement, as the bleTimeout task sees it:
\* output_callback_suspended is one plain global that both tasks write.
\* line 132: Log::suspendOutputCallback()
GattsSuspend(event) ==
    /\ Running
    /\ btc_pc = "idle"
    /\ IF event = "CONF_EVT"
       THEN NextEvent("conf") /\ btc_queue' = Tail(btc_queue)
       ELSE PeerRequest /\ UNCHANGED btc_queue
    /\ gatts_event' = event
    /\ output_callback_suspended' = TRUE
    /\ btc_pc' = "gatts"
    /\ UNCHANGED <<connected_client, last_activity_time, cccd, advertising, link, reset_idx,
                   assert_failed, connections, forced_since_activity>>
    /\ UNCHANGED <<log_forwarded, log_pc>>
    /\ UNCHANGED <<sweepVars, notLog>>

\* lines 144-148: the refresh, and the line logged after it
GattsHandle ==
    /\ Running
    /\ btc_pc = "gatts"
    /\ GattsRefresh(gatts_event)
    /\ IF RefreshesActivity(gatts_event) THEN LogPrint("gatts")
       ELSE UNCHANGED <<log_forwarded, btc_queue>>
    /\ btc_pc' = "gatts_end"
    /\ UNCHANGED <<connected_client, cccd, advertising, link, reset_idx, assert_failed,
                   connections>>
    /\ UNCHANGED <<output_callback_suspended, gatts_event, log_pc>>
    /\ UNCHANGED <<sweepVars, notLog>>

\* line 149: the suspender goes out of scope (log.cpp, lines 10-12)
GattsResume ==
    /\ Running
    /\ btc_pc = "gatts_end"
    /\ output_callback_suspended' = FALSE
    /\ gatts_event' = "none"
    /\ btc_pc' = "idle"
    /\ UNCHANGED <<connected_client, last_activity_time, cccd, advertising, link, btc_queue,
                   reset_idx, assert_failed, connections, forced_since_activity>>
    /\ UNCHANGED <<log_forwarded, log_pc>>
    /\ UNCHANGED <<sweepVars, notLog>>

GattsSteps ==
    \/ \E event \in PeerEventTypes \cup {"CONF_EVT"} : GattsSuspend(event)
    \/ GattsHandle
    \/ GattsResume

\* the bleTimeout task, line 158: Log::suspendOutputCallback()
SweepLogSuspend ==
    /\ Running
    /\ log_pc = "out"
    /\ output_callback_suspended' = TRUE
    /\ log_pc' = "in"
    /\ UNCHANGED <<gatts_event, log_forwarded>>
    /\ UNCHANGED <<sessionVars, sweepVars, notLog>>

\* line 159: Log::printf("client idle time: ...")
SweepLogPrint ==
    /\ Running
    /\ log_pc = "in"
    /\ LogPrint("sweep_idle")
    /\ log_pc' = "printed"
    /\ UNCHANGED <<connected_client, last_activity_time, cccd, advertising, link, btc_pc,
                   reset_idx, assert_failed, connections, forced_since_activity>>
    /\ UNCHANGED <<output_callback_suspended, gatts_event>>
    /\ UNCHANGED <<sweepVars, notLog>>

\* line 160: the suspender goes out of scope
SweepLogResume ==
    /\ Running
    /\ log_pc = "printed"
    /\ output_callback_suspended' = FALSE
    /\ log_pc' = "out"
    /\ UNCHANGED <<gatts_event, log_forwarded>>
    /\ UNCHANGED <<sessionVars, sweepVars, notLog>>

SweepLogSteps == SweepLogSuspend \/ SweepLogPrint \/ SweepLogResume

\* The authentication of the connected peer completes.
AuthCompleted ==
    \E ev \in GapEvents :
        /\ ev.event = "AUTH_CMPL_EVT"
        /\ ev.bd_addr = link
        /\ Running
        /\ CustomGapHandler(ev)

\* The peer enables the notifications of the Debug Log.
DebugLogEnable == CccdWrite(DebugLogDescriptor, setNotifications(0, TRUE))

\* The data callback (lines 312-317) runs on the task of the Bluetooth
\* serial port whenever the target device sends bytes, and logs them.
DataLog ==
    /\ Running
    /\ LogPrint("data")
    /\ UNCHANGED <<connected_client, last_activity_time, cccd, advertising, link, btc_pc,
                   reset_idx, assert_failed, connections, forced_since_activity>>
    /\ UNCHANGED <<output_callback_suspended, gatts_event, log_pc>>
    /\ UNCHANGED <<sweepVars, notLog>>

(***************************************************************************)
(* Bluetooth Classic bridge: scan and connect (bluetooth.cpp), called from *)
(* the BT Scan and BT Connect characteristics (ble.cpp, lines 343-465).    *)
(* The callers run on the BLE event task, one call at a time; every scan   *)
(* and every connect has a task of its own.  scan_task and connect_task    *)
(* are shared without a lock, so the calls are modelled statement by       *)
(* statement.                                                              *)
(***************************************************************************)
\* scan tasks created in one run of the model
MaxScanTasks == 2
\* connect tasks created in one run of the model
MaxConnectTasks == 1
\* polls of a scan task: ESP_BT_GAP_MAX_INQ_LEN, scaled down
MaxInq == 1
\* attempts of a connect task: retry_count, scaled down
RetryCount == 1
\* disconnect tasks there are at one time
MaxDisconnectTasks == 2
\* connect tasks created in one run of the model of connect() over connect()
MaxReconnects == 2
\* payloads handed to SerialBT.write in one run of the model
MaxSent == 2

\* a task just created by scan()
NewScanTask == [pc |-> "poll", t |-> 0, notify |-> FALSE, canceled |-> FALSE,
                fin |-> <<>>, given |-> FALSE]
\* a task just created by connect()
NewConnectTask == [pc |-> "retry", i |-> 0, n |-> 0, connected |-> FALSE, notify |-> FALSE,
                   notified |-> FALSE, changed |-> <<>>, address |-> <<>>]

BtInit ==
    /\ can_scan = TRUE
    /\ scan_task = None
    /\ scans = <<>>
    /\ discovery = None
    /\ connect_task = None
    /\ conns = <<>>
    /\ bt_client = FALSE
    /\ bt_op = "idle"
    /\ bt_step = "none"
    /\ bt_last = "none"
    /\ bt_ret = "none"
    /\ bt_crashed = FALSE
    /\ is_scanning = FALSE
    /\ scan_at_call = None
    /\ retry_count = 0
    /\ discs = EmptyBag
    /\ bt_sent = <<>>
    /\ bt_h = None
    /\ bt_data = <<>>

\* ---- the scan task, bluetooth.cpp lines 76-104

\* lines 80-89: one turn of the loop; ulTaskNotifyTake returns at once when
\* a notification is pending, and after INQ_TIME otherwise
ScanPoll(id) ==
    /\ ~bt_crashed
    /\ scans[id].pc = "poll"
    /\ IF scans[id].notify
       THEN scans' = [scans EXCEPT ![id].notify = FALSE, ![id].canceled = TRUE,
                                   ![id].pc = "callback"]
       ELSE scans' = [scans EXCEPT ![id].t = @ + 1,
                                   ![id].pc = IF scans[id].t + 1 >= MaxInq THEN "after" ELSE "poll"]
    /\ UNCHANGED <<can_scan, scan_task, discovery, connect_task, conns, bt_client, bt_op,
                   bt_step, bt_last, bt_ret, bt_crashed, is_scanning, scan_at_call, retry_count,
                   discs, bt_sent, bt_h, bt_data, notBt>>

\* line 93: SerialBT.discoverAsyncStop() after a natural end
ScanStop(id) ==
    /\ ~bt_crashed
    /\ scans[id].pc = "after"
    /\ discovery' = None
    /\ scans' = [scans EXCEPT ![id].pc = "clear"]
    /\ UNCHANGED <<can_scan, scan_task, connect_task, conns, bt_client, bt_op,
                   bt_step, bt_last, bt_ret, bt_crashed, is_scanning, scan_at_call, retry_count,
                   discs, bt_sent, bt_h, bt_data, notBt>>

\* line 96: scan_task = nullptr
ScanClear(id) ==
    /\ ~bt_crashed
    /\ scans[id].pc = "clear"
    /\ scan_task' = None
    /\ scans' = [scans EXCEPT ![id].pc = "callback"]
    /\ UNCHANGED <<can_scan, discovery, connect_task, conns, bt_client, bt_op,
                   bt_step, bt_last, bt_ret, bt_crashed, is_scanning, scan_at_call, retry_count,
                   discs, bt_sent, bt_h, bt_data, notBt>>

\* lines 99-101: on_finished(canceled) (ble.cpp lines 387-393), vTaskDelete
ScanFinished(id) ==
    /\ ~bt_crashed
    /\ scans[id].pc = "callback"
    /\ scans' = [scans EXCEPT ![id].fin = Append(@, scans[id].canceled), ![id].pc = "deleted"]
    /\ is_scanning' = FALSE
    /\ UNCHANGED <<can_scan, scan_task, discovery, connect_task, conns, bt_client, bt_op,
                   bt_step, bt_last, bt_ret, bt_crashed, scan_at_call, retry_count,
                   discs, bt_sent, bt_h, bt_data, notBt>>

ScanPolls == \E id \in 1..Len(scans) : ScanPoll(id)
ScanStops == \E id \in 1..Len(scans) : ScanStop(id)
ScanClears == \E id \in 1..Len(scans) : ScanClear(id)
ScanFinisheds == \E id \in 1..Len(scans) : ScanFinished(id)

\* ---- Bluetooth::cancelScan, lines 109-119, inside the call bt_op

\* what the caller does once cancelScan() has returned
AfterCancel ==
    /\ bt_step' = CASE bt_op = "scan" -> "discover"
                    [] bt_op = "connect" -> "create"
                    [] OTHER -> "none"
    /\ bt_op' = IF bt_op = "cancel" THEN "idle" ELSE bt_op

\* lines 110-112
CancelCheck ==
    /\ ~bt_crashed
    /\ bt_step = "check"
    /\ IF scan_task = None
       THEN AfterCancel
       ELSE bt_step' = "stop" /\ UNCHANGED bt_op
    /\ UNCHANGED <<can_scan, scan_task, scans, discovery, connect_task, conns, bt_client,
                   bt_last, bt_ret, bt_crashed, is_scanning, scan_at_call, retry_count,
                   discs, bt_sent, bt_h, bt_data, notBt>>

\* line 114
CancelStop ==
    /\ ~bt_crashed
    /\ bt_step = "stop"
    /\ discovery' = None
    /\ bt_step' = "notify"
    /\ UNCHANGED <<can_scan, scan_task, scans, connect_task, conns, bt_client, bt_op,
                   bt_last, bt_ret, bt_crashed, is_scanning, scan_at_call, retry_count,
                   discs, bt_sent, bt_h, bt_data, notBt>>

\* line 116: xTaskNotifyGive(scan_task).  A null handle stops the firmware
\* (configASSERT, or the store through a null task pointer).
CancelNotify ==
    /\ ~bt_crashed
    /\ bt_step = "notify"
    /\ IF scan_task = None
       THEN bt_crashed' = TRUE /\ UNCHANGED <<scans, bt_step>>
       ELSE /\ scans' = [scans EXCEPT ![scan_task].notify = TRUE, ![scan_task].given = TRUE]
            /\ bt_step' = "clear"
            /\ UNCHANGED bt_crashed
    /\ UNCHANGED <<can_scan, scan_task, discovery, connect_task, conns, bt_client, bt_op,
                   bt_last, bt_ret, is_scanning, scan_at_call, retry_count,
                   discs, bt_sent, bt_h, bt_data, notBt>>

\* line 118
CancelClear ==
    /\ ~bt_crashed
    /\ bt_step = "clear"
    /\ scan_task' = None
    /\ AfterCancel
    /\ UNCHANGED <<can_scan, scans, discovery, connect_task, conns, bt_client,
                   bt_last, bt_ret, bt_crashed, is_scanning, scan_at_call, retry_count,
                   discs, bt_sent, bt_h, bt_data, notBt>>

\* ---- the calls

\* Bluetooth::scan line 43: if (!can_scan)
ScanRefusedNever(c) == FALSE
ScanRefused(c) == ~c

\* the scan the handle names is still polling
ScanActive == scan_task # None /\ scans[scan_task].pc = "poll"

\* BT Scan write, first byte nonzero (ble.cpp lines 356-371), and
\* Bluetooth::scan lines 43-45
ScanCall ==
    /\ ~bt_crashed
    /\ bt_op = "idle"
    /\ bt_last' = "scan"
    /\ scan_at_call' = IF ScanActive THEN scan_task ELSE None
    /\ IF ScanRefused(can_scan)
       THEN /\ bt_ret' = "false"
            /\ is_scanning' = FALSE
            /\ UNCHANGED <<bt_op, bt_step>>
       ELSE /\ bt_ret' = "none"
            /\ bt_op' = "scan"
            /\ bt_step' = "check"
            /\ UNCHANGED is_scanning
    /\ UNCHANGED <<can_scan, scan_task, scans, discovery, connect_task, conns, bt_client,
                   bt_crashed, retry_count,
                   discs, bt_sent, bt_h, bt_data, notBt>>

\* Bluetooth::scan lines 53-106 and the assignment of ble.cpp line 371:
\* discoverAsync may refuse
ScanDiscover ==
    /\ ~bt_crashed
    /\ bt_op = "scan"
    /\ bt_step = "discover"
    /\ \E scanning \in BOOLEAN :
          IF scanning
          THEN /\ Len(scans) < MaxScanTasks
               /\ scans' = Append(scans, NewScanTask)
               /\ scan_task' = Len(scans) + 1
               /\ discovery' = Len(scans) + 1
               /\ bt_ret' = "true"
               /\ is_scanning' = TRUE
          ELSE /\ bt_ret' = "false"
               /\ is_scanning' = FALSE
               /\ UNCHANGED <<scans, scan_task, discovery>>
    /\ bt_op' = "idle"
    /\ bt_step' = "none"
    /\ UNCHANGED <<can_scan, connect_task, conns, bt_client, bt_last, bt_crashed,
                   scan_at_call, retry_count,
                   discs, bt_sent, bt_h, bt_data, notBt>>

\* BT Scan write, first byte zero (ble.cpp lines 366-369)
CancelCall ==
    /\ ~bt_crashed
    /\ bt_op = "idle"
    /\ bt_op' = "cancel"
    /\ bt_step' = "check"
    /\ bt_last' = "cancel"
    /\ bt_ret' = "none"
    /\ UNCHANGED <<can_scan, scan_task, scans, discovery, connect_task, conns, bt_client,
                   bt_crashed, is_scanning, scan_at_call, retry_count,
                   discs, bt_sent, bt_h, bt_data, notBt>>

\* Bluetooth::connect line 123: the value connect() leaves in can_scan
CanScanKept(c) == c
CanScanAfterConnect(c) == FALSE

\* BT Connect write, first byte nonzero, with a target address stored
\* (ble.cpp lines 433-457), and Bluetooth::connect line 123; n is the
\* retry_count argument, limit the connect tasks a run of the model creates
ConnectCallUpTo(n, limit) ==
    /\ ~bt_crashed
    /\ bt_op = "idle"
    /\ Len(conns) < limit
    /\ can_scan' = CanScanAfterConnect(can_scan)
    /\ bt_op' = "connect"
    /\ bt_step' = "check"
    /\ bt_last' = "connect"
    /\ bt_ret' = "none"
    /\ retry_count' = n
    /\ UNCHANGED <<scan_task, scans, discovery, connect_task, conns, bt_client,
                   bt_crashed, is_scanning, scan_at_call, discs, bt_sent, bt_h, bt_data, notBt>>

ConnectCall(n) == ConnectCallUpTo(n, MaxConnectTasks)

\* connect() with every retry_count from 0 to RetryCount
ConnectCalls == \E n \in 0..RetryCount : ConnectCall(n)

\* xTaskNotifyGive(h) on a connect task.  The handle of a task that deleted
\* itself is dangling: the notification is written to a freed task control
\* block, which goes unnoticed or stops the firmware.
NotifyDangling(h) == conns[h].pc = "deleted"
Notified(h) == IF NotifyDangling(h) THEN conns ELSE [conns EXCEPT ![h].notify = TRUE]

\* Bluetooth::connect lines 127-190: notify the task connect_task names and
\* create the new one.  Its address is the one the BT Connect handler read
\* from the entry "bt-address" at ble.cpp line 448; the handler is one callback of the
\* BLE event task, in which no write to the store takes place.
ConnectCreate ==
    /\ ~bt_crashed
    /\ bt_op = "connect"
    /\ bt_step = "create"
    /\ \E crash \in BOOLEAN :
          /\ crash => connect_task # None /\ NotifyDangling(connect_task)
          /\ bt_crashed' = crash
          /\ conns' = Append(IF connect_task # None THEN Notified(connect_task) ELSE conns,
                             [NewConnectTask EXCEPT !.n = retry_count,
                                                    !.address = nvs_addr])
    /\ connect_task' = Len(conns) + 1
    /\ retry_count' = 0
    /\ bt_op' = "idle"
    /\ bt_step' = "none"
    /\ UNCHANGED <<can_scan, scan_task, scans, discovery, bt_client, bt_last, bt_ret,
                   is_scanning, scan_at_call, discs, bt_sent, bt_h, bt_data, notBt>>

\* ---- the connect task, bluetooth.cpp lines 147-190

\* the state byte of the callback BT Connect hands to connect(), ble.cpp
\* line 461
ConnectStateByteInverted(connected) == IF connected THEN 0 ELSE 1
ConnectStateByte(connected) == IF connected THEN 1 ELSE 0

\* that callback, ble.cpp lines 458-464: setValue of the state byte and
\* notify on the BT Connect characteristic
OnChanged(connected) ==
    /\ set_char' = "BtConnect"
    /\ set_op' = "notify"
    /\ set_value' = <<ConnectStateByte(connected)>>
    /\ UNCHANGED <<pin_code, set_uuid, set_data, wr_empty>>

\* what a callback of a connect task leaves alone
notBtConnect == <<otaVars, sessionVars, sweepVars, framerVars, configVars, gapVars, logVars,
                  shutdownVars>>

\* the loop test of line 151
AttemptsLeftAlways(i, n) == TRUE
AttemptsLeft(i, n) == i < n

\* lines 151-160: the loop test and one attempt, SerialBT.connect
ConnectAttempt(id) ==
    /\ ~bt_crashed
    /\ conns[id].pc = "retry"
    /\ IF AttemptsLeft(conns[id].i, conns[id].n)
       THEN \E connected \in BOOLEAN :
               IF connected
               THEN /\ bt_client' = TRUE
                    /\ conns' = [conns EXCEPT ![id].i = @ + 1, ![id].connected = TRUE,
                                              ![id].pc = "report"]
               ELSE /\ UNCHANGED bt_client
                    /\ conns' = [conns EXCEPT ![id].i = @ + 1]
       ELSE /\ UNCHANGED bt_client
            /\ conns' = [conns EXCEPT ![id].pc = "report"]
    /\ UNCHANGED <<can_scan, scan_task, scans, discovery, connect_task, bt_op, bt_step,
                   bt_last, bt_ret, bt_crashed, is_scanning, scan_at_call, retry_count,
                   discs, bt_sent, bt_h, bt_data, notBt>>

\* lines 162-167: on_changed(connected); a task that did not connect deletes
\* itself and leaves connect_task as it is
ConnectReport(id) ==
    /\ ~bt_crashed
    /\ conns[id].pc = "report"
    /\ conns' = [conns EXCEPT ![id].changed = Append(@, conns[id].connected),
                              ![id].pc = IF conns[id].connected THEN "monitor" ELSE "deleted"]
    /\ OnChanged(conns[id].connected)
    /\ UNCHANGED <<can_scan, scan_task, scans, discovery, connect_task, bt_client, bt_op,
                   bt_step, bt_last, bt_ret, bt_crashed, is_scanning, scan_at_call,
                   retry_count, discs, bt_sent, bt_h, bt_data, notBtConnect>>

\* lines 173 and 177: what makes the monitor loop end
MonitorEndsOnNotify(notified, has_client) == notified
MonitorEnds(notified, has_client) == notified \/ ~has_client

\* lines 170-180: a turn of the monitor loop that leaves it, on a
\* notification (taken and cleared) or because the link is gone
ConnectPoll(id) ==
    /\ ~bt_crashed
    /\ conns[id].pc = "monitor"
    /\ MonitorEnds(conns[id].notify, bt_client)
    /\ conns' = IF conns[id].notify
                THEN [conns EXCEPT ![id].notify = FALSE, ![id].notified = TRUE,
                                   ![id].pc = "callback"]
                ELSE [conns EXCEPT ![id].pc = "clear"]
    /\ UNCHANGED <<can_scan, scan_task, scans, discovery, connect_task, bt_client, bt_op,
                   bt_step, bt_last, bt_ret, bt_crashed, is_scanning, scan_at_call,
                   retry_count, discs, bt_sent, bt_h, bt_data, notBt>>

\* lines 182-185: if (!notified) connect_task = nullptr
ConnectClear(id) ==
    /\ ~bt_crashed
    /\ conns[id].pc = "clear"
    /\ connect_task' = None
    /\ conns' = [conns EXCEPT ![id].pc = "callback"]
    /\ UNCHANGED <<can_scan, scan_task, scans, discovery, bt_client, bt_op, bt_step,
                   bt_last, bt_ret, bt_crashed, is_scanning, scan_at_call, retry_count,
                   discs, bt_sent, bt_h, bt_data, notBt>>

\* lines 187-189: on_changed(false), vTaskDelete
ConnectChanged(id) ==
    /\ ~bt_crashed
    /\ conns[id].pc = "callback"
    /\ conns' = [conns EXCEPT ![id].changed = Append(@, FALSE), ![id].pc = "deleted"]
    /\ OnChanged(FALSE)
    /\ UNCHANGED <<can_scan, scan_task, scans, discovery, connect_task, bt_client, bt_op,
                   bt_step, bt_last, bt_ret, bt_crashed, is_scanning, scan_at_call,
                   retry_count, discs, bt_sent, bt_h, bt_data, notBtConnect>>

\* the target device drops the link
BtLinkLoss ==
    /\ ~bt_crashed
    /\ bt_client
    /\ bt_client' = FALSE
    /\ UNCHANGED <<can_scan, scan_task, scans, discovery, connect_task, conns, bt_op, bt_step,
                   bt_last, bt_ret, bt_crashed, is_scanning, scan_at_call, retry_count,
                   discs, bt_sent, bt_h, bt_data, notBt>>

ConnectAttempts == \E id \in 1..Len(conns) : ConnectAttempt(id)
ConnectReports == \E id \in 1..Len(conns) : ConnectReport(id)
ConnectPolls == \E id \in 1..Len(conns) : ConnectPoll(id)
ConnectClears == \E id \in 1..Len(conns) : ConnectClear(id)
ConnectChangeds == \E id \in 1..Len(conns) : ConnectChanged(id)

\* ---- Bluetooth::disconnect, lines 193-205: a task of its own per call

\* the tasks without one that is at d: vTaskDelete(nullptr) of that task
TaskDeleted(tasks, d) == tasks (-) SetToBag({d})
\* the tasks after one that was at d has moved on to e
TaskMoved(tasks, d, e) == TaskDeleted(tasks, d) (+) SetToBag({e})

\* a task just created by disconnect()
NewDisconnectTask == [pc |-> "stop", h |-> None]

\* BT Connect write, first byte zero (ble.cpp lines 441-446), and line 195
DisconnectCall ==
    /\ ~bt_crashed
    /\ bt_op = "idle"
    /\ BagCardinality(discs) < MaxDisconnectTasks
    /\ discs' = discs (+) SetToBag({NewDisconnectTask})
    /\ UNCHANGED <<can_scan, scan_task, scans, discovery, connect_task, conns, bt_client,
                   bt_op, bt_step, bt_last, bt_ret, bt_crashed, is_scanning, scan_at_call, retry_count,
                   bt_sent, bt_h, bt_data, notBt>>

\* line 196: SerialBT.disconnect()
DisconnectStop(d) ==
    /\ ~bt_crashed
    /\ d.pc = "stop"
    /\ bt_client' = FALSE
    /\ discs' = TaskMoved(discs, d, [d EXCEPT !.pc = "check"])
    /\ UNCHANGED <<can_scan, scan_task, scans, discovery, connect_task, conns, bt_op, bt_step,
                   bt_last, bt_ret, bt_crashed, is_scanning, scan_at_call, retry_count,
                   bt_sent, bt_h, bt_data, notBt>>

\* line 198: if (connect_task)
DisconnectCheck(d) ==
    /\ ~bt_crashed
    /\ d.pc = "check"
    /\ discs' = IF connect_task = None
                THEN TaskDeleted(discs, d)
                ELSE TaskMoved(discs, d, [d EXCEPT !.h = connect_task, !.pc = "notify"])
    /\ UNCHANGED <<can_scan, scan_task, scans, discovery, connect_task, conns, bt_client,
                   bt_op, bt_step, bt_last, bt_ret, bt_crashed, is_scanning, scan_at_call,
                   retry_count, bt_sent, bt_h, bt_data, notBt>>

\* line 199: xTaskNotifyGive(connect_task), with the handle line 198 read
DisconnectNotify(d) ==
    /\ ~bt_crashed
    /\ d.pc = "notify"
    /\ \E crash \in BOOLEAN :
          /\ crash => NotifyDangling(d.h)
          /\ bt_crashed' = crash
    /\ conns' = Notified(d.h)
    /\ discs' = TaskMoved(discs, d, [d EXCEPT !.pc = "clear", !.h = None])
    /\ UNCHANGED <<can_scan, scan_task, scans, discovery, connect_task, bt_client, bt_op,
                   bt_step, bt_last, bt_ret, is_scanning, scan_at_call, retry_count,
                   bt_sent, bt_h, bt_data, notBt>>

\* lines 200-203: connect_task = nullptr, vTaskDelete
DisconnectClear(d) ==
    /\ ~bt_crashed
    /\ d.pc = "clear"
    /\ connect_task' = None
    /\ discs' = TaskDeleted(discs, d)
    /\ UNCHANGED <<can_scan, scan_task, scans, discovery, conns, bt_client, bt_op, bt_step,
                   bt_last, bt_ret, bt_crashed, is_scanning, scan_at_call, retry_count,
                   bt_sent, bt_h, bt_data, notBt>>

DisconnectStops == \E d \in BagToSet(discs) : DisconnectStop(d)
DisconnectChecks == \E d \in BagToSet(discs) : DisconnectCheck(d)
DisconnectNotifies == \E d \in BagToSet(discs) : DisconnectNotify(d)
DisconnectClears == \E d \in BagToSet(discs) : DisconnectClear(d)


\* ---- Bluetooth::isConnected (lines 207-218) and Bluetooth::write (lines
\* 220-226), called on the BLE event task

\* payloads written to the Serial Data characteristic
SerialPayloads == {<<1>>, <<2, 3>>}

\* BT Connect read (ble.cpp lines 423-431): isConnected()
BtConnectRead ==
    /\ ~bt_crashed
    /\ bt_op = "idle"
    /\ bt_op' = "read"
    /\ bt_step' = "ic_test"
    /\ bt_ret' = "none"
    /\ UNCHANGED <<can_scan, scan_task, scans, discovery, connect_task, conns, bt_client,
                   bt_last, bt_crashed, is_scanning, scan_at_call, retry_count,
                   discs, bt_sent, bt_h, bt_data, notBt>>

\* Serial Data write (ble.cpp lines 281-295): isConnected(), then write()
SerialDataWrite(data) ==
    /\ ~bt_crashed
    /\ bt_op = "idle"
    /\ Len(bt_sent) < MaxSent
    /\ bt_op' = "serial"
    /\ bt_step' = "ic_test"
    /\ bt_ret' = "none"
    /\ bt_data' = data
    /\ UNCHANGED <<can_scan, scan_task, scans, discovery, connect_task, conns, bt_client,
                   bt_last, bt_crashed, is_scanning, scan_at_call, retry_count, discs, bt_sent,
                   bt_h, notBt>>

SerialDataWrites == \E data \in SerialPayloads : SerialDataWrite(data)

\* line 221: the test write() makes before it sends
WriteRefusedNever(connected) == FALSE
WriteRefused(connected) == ~connected

\* isConnected() returned true: the BT Connect read has its value; the
\* Serial Data write calls write(), which calls isConnected() again
IsConnectedTrue ==
    /\ bt_op' = IF bt_op = "serial" THEN "write" ELSE "idle"
    /\ bt_step' = IF bt_op = "serial" THEN "ic_test" ELSE "none"
    /\ bt_ret' = IF bt_op = "read" THEN "true" ELSE bt_ret
    /\ UNCHANGED bt_sent

\* isConnected() returned false: write() returns false, the Serial Data
\* write drops the bytes
IsConnectedFalse ==
    /\ bt_op' = "idle"
    /\ bt_step' = "none"
    /\ bt_ret' = IF bt_op = "serial" THEN "dropped" ELSE "false"

\* lines 208-210, and for write() lines 221-225: SerialBT.write, which may
\* report that it sent nothing
IsConnectedTest ==
    /\ ~bt_crashed
    /\ bt_step = "ic_test"
    /\ IF bt_op = "write"
       THEN IF WriteRefused(bt_client)
            THEN bt_step' = "ic_check" /\ UNCHANGED <<bt_op, bt_ret, bt_sent>>
            ELSE /\ bt_sent' = Append(bt_sent, bt_data)
                 /\ \E sent \in BOOLEAN : bt_ret' = IF sent THEN "true" ELSE "false"
                 /\ bt_op' = "idle"
                 /\ bt_step' = "none"
       ELSE IF bt_client
            THEN IsConnectedTrue
            ELSE bt_step' = "ic_check" /\ UNCHANGED <<bt_op, bt_ret, bt_sent>>
    /\ UNCHANGED <<can_scan, scan_task, scans, discovery, connect_task, conns, bt_client,
                   bt_last, bt_crashed, is_scanning, scan_at_call, retry_count, discs,
                   bt_h, bt_data, notBt>>

\* line 212: if (connect_task)
IsConnectedCheck ==
    /\ ~bt_crashed
    /\ bt_step = "ic_check"
    /\ bt_h' = connect_task
    /\ IF connect_task = None
       THEN IsConnectedFalse
       ELSE bt_step' = "ic_notify" /\ UNCHANGED <<bt_op, bt_ret>>
    /\ UNCHANGED <<can_scan, scan_task, scans, discovery, connect_task, conns, bt_client,
                   bt_last, bt_crashed, is_scanning, scan_at_call, retry_count, discs,
                   bt_sent, bt_data, notBt>>

\* line 213: xTaskNotifyGive(connect_task)
IsConnectedNotify ==
    /\ ~bt_crashed
    /\ bt_step = "ic_notify"
    /\ \E crash \in BOOLEAN :
          /\ crash => NotifyDangling(bt_h)
          /\ bt_crashed' = crash
    /\ conns' = Notified(bt_h)
    /\ bt_step' = "ic_clear"
    /\ UNCHANGED <<can_scan, scan_task, scans, discovery, connect_task, bt_client, bt_op,
                   bt_last, bt_ret, is_scanning, scan_at_call, retry_count, discs,
                   bt_sent, bt_h, bt_data, notBt>>

\* lines 214-217: connect_task = nullptr; return false
IsConnectedClear ==
    /\ ~bt_crashed
    /\ bt_step = "ic_clear"
    /\ connect_task' = None
    /\ bt_h' = None
    /\ IsConnectedFalse
    /\ UNCHANGED <<can_scan, scan_task, scans, discovery, conns, bt_client, bt_last,
                   bt_crashed, is_scanning, scan_at_call, retry_count, discs, bt_sent,
                   bt_data, notBt>>

\* Bluetooth::canScan
canScan == can_scan
\* a connect task is attempting to connect or monitoring the link
ConnectActive == \E id \in 1..Len(conns) : conns[id].pc # "deleted"

(***************************************************************************)
(* Inbound serial framer: the data callback of the Serial Data             *)
(* characteristic (ble.cpp, lines 312-339).                                *)
(***************************************************************************)
\* bytes the target device sends in one run of the model
MaxStream == 6
\* bytes one call of the data callback delivers
MaxData == 3
\* the frame terminator, 0x0A
Terminator == 10
\* the bytes the target device sends
StreamBytes == {1, 2, 3, Terminator}

FramerInit ==
    /\ frm_buffer = <<>>
    /\ frm_emitted = <<>>
    /\ frm_fed = <<>>
    /\ frm_calls = 0

\* line 337: the buffer after a frame was notified
BufferKept(buffer) == buffer
BufferCleared(buffer) == <<>>

\* lines 321-338: the loop over the bytes of one call; the result is the
\* buffer and the list of notified values after the last byte
RECURSIVE FrameBytes(_, _, _)
FrameBytes(buffer, emitted, data) ==
    IF data = <<>> THEN <<buffer, emitted>>
    ELSE LET pushed == Append(buffer, Head(data))
         IN  IF Head(data) # Terminator
             THEN FrameBytes(pushed, emitted, Tail(data))
             ELSE FrameBytes(BufferCleared(pushed), Append(emitted, pushed), Tail(data))

\* the callback registered with Bluetooth::setDataCallback, lines 312-339
DataCallback(data) ==
    /\ Len(frm_fed) + Len(data) <= MaxStream
    /\ frm_buffer' = FrameBytes(frm_buffer, frm_emitted, data)[1]
    /\ frm_emitted' = FrameBytes(frm_buffer, frm_emitted, data)[2]
    /\ frm_fed' = frm_fed \o data
    /\ frm_calls' = frm_calls + 1
    /\ UNCHANGED notFramer

DataCallbacks == \E data \in SeqsUpTo(StreamBytes, MaxData) \ {<<>>} : DataCallback(data)

(***************************************************************************)
(* Target address setting: the Config Target Address characteristic        *)
(* (ble.cpp, lines 565-610) over the settings store (config.cpp).          *)
(***************************************************************************)
\* longest name written with an address
MaxName == 2
\* target addresses written
Addresses == {<<0, 6, 102, 0, 0, 1>>, <<17, 34, 51, 68, 85, 102>>}
\* bytes of the names written, the zero byte among them
NameBytes == {0, 65, 66}
\* payloads written to the characteristic: empty, too short, address and name
AddressPayloads ==
    {<<>>}
    \cup {SubSeq(a, 1, k) : a \in Addresses, k \in {1, 5}}
    \cup {a \o n : a \in Addresses, n \in SeqsUpTo(NameBytes, MaxName)}

ConfigInit ==
    /\ nvs_addr = <<>>
    /\ nvs_name = <<>>
    /\ cfg_last = <<>>
    /\ cfg_written = FALSE
    /\ cfg_read = <<>>
    /\ cfg_has_read = FALSE
    /\ cfg_threw = FALSE

\* std::string::c_str() as nvs_set_str reads it: the bytes before the first
\* zero byte
RECURSIVE CStr(_)
CStr(s) == IF s = <<>> \/ Head(s) = 0 THEN <<>> ELSE <<Head(s)>> \o CStr(Tail(s))

\* nvs_set_str (config.cpp line 189): the entry holds the string and its
\* terminator; an entry that does not exist is the empty sequence
NvsSetStr(s) == CStr(s) \o <<0>>

\* Config::getString, config.cpp lines 159-182
getString(entry) ==
    IF Len(entry) = 0
    THEN [has_value |-> FALSE, value |-> <<>>]
    ELSE [has_value |-> TRUE, value |-> SubSeq(entry, 1, Len(entry) - 1)]

\* Config::getBtAddress, config.cpp lines 40-55
getBtAddress ==
    IF nvs_addr = <<>>
    THEN [has_value |-> FALSE, value |-> <<>>]
    ELSE [has_value |-> TRUE, value |-> nvs_addr]

\* ble.cpp lines 598-604: the address and the name of a payload
AddressOf(data) == SubSeq(data, 1, 6)
NameOf(data) == SubSeq(data, 7, Len(data))

\* onWrite, ble.cpp lines 582-610, with Config::setBtAddress (config.cpp
\* lines 57-77) and Config::setString (lines 184-204): nvs_erase_key of a key
\* that does not exist makes the setter throw, and the handler ends there
AddressWrite(data) ==
    /\ cfg_last' = data
    /\ cfg_written' = TRUE
    /\ cfg_read' = <<>>
    /\ cfg_has_read' = FALSE
    /\ IF Len(data) = 0
       THEN IF nvs_addr = <<>>
            THEN cfg_threw' = TRUE /\ UNCHANGED <<nvs_addr, nvs_name>>
            ELSE /\ nvs_addr' = <<>>
                 /\ IF nvs_name = <<>>
                    THEN cfg_threw' = TRUE /\ UNCHANGED nvs_name
                    ELSE cfg_threw' = FALSE /\ nvs_name' = <<>>
       ELSE IF Len(data) < 6
            THEN cfg_threw' = FALSE /\ UNCHANGED <<nvs_addr, nvs_name>>
            ELSE /\ nvs_addr' = AddressOf(data)
                 /\ nvs_name' = NvsSetStr(NameOf(data))
                 /\ cfg_threw' = FALSE
    /\ UNCHANGED notConfig

AddressWrites == \E data \in AddressPayloads : AddressWrite(data)

\* the value onRead sets, ble.cpp lines 567-580
AddressValue ==
    IF ~getBtAddress.has_value THEN <<>>
    ELSE getBtAddress.value \o
         (IF getString(nvs_name).has_value THEN getString(nvs_name).value ELSE <<>>)

\* onRead, ble.cpp lines 567-580
AddressRead ==
    /\ cfg_read' = AddressValue
    /\ cfg_has_read' = TRUE
    /\ cfg_threw' = FALSE
    /\ UNCHANGED <<nvs_addr, nvs_name, cfg_last, cfg_written, notConfig>>


(***************************************************************************)
(* PIN and idle timeout settings: the Config PIN, Connected Idle Timeout   *)
(* and Disconnected Idle Timeout characteristics (ble.cpp, lines 521-728)  *)
(* over the settings store (config.cpp, lines 16-38).                      *)
(***************************************************************************)
\* longest payload written to one of the three characteristics
MaxPayload == 5
\* what the payloads written are cut from; the fourth byte stays below 128,
\* so that every value is below 2^31
SettingPatterns ==
    {<<63, 66, 15, 0, 0, 0, 0>>, <<64, 66, 15, 0, 0, 0, 0>>,
     <<0, 0, 0, 1, 0, 0, 0>>, <<0, 0, 0, 0, 7, 7, 7>>, <<5, 0, 0, 0, 0, 0, 0>>}
SettingPayloads == {SubSeq(p, 1, k) : p \in SettingPatterns, k \in 0..MaxPayload}

\* ble.h, lines 11, 16 and 17
X1_GATT_UUID_CONFIG_PIN_CODE == "00002005-7858-48fb-b797-8613e960da6a"
X1_GATT_UUID_CONFIG_CON_IDLE == "0000200a-7858-48fb-b797-8613e960da6a"
X1_GATT_UUID_CONFIG_DISCON_IDLE == "0000200b-7858-48fb-b797-8613e960da6a"
SettingUuids ==
    {X1_GATT_UUID_CONFIG_PIN_CODE, X1_GATT_UUID_CONFIG_CON_IDLE,
     X1_GATT_UUID_CONFIG_DISCON_IDLE}

\* the three characteristics, named by the function that creates them
SettingChars == {"ConfigPinCode", "ConfigConnectedIdleTimeout",
                 "ConfigDisconnectedIdleTimeout"}
TimeoutChars == {"ConfigConnectedIdleTimeout", "ConfigDisconnectedIdleTimeout"}

\* the UUID each of them is created with: service->createCharacteristic at
\* lines 544, 663 and 709
CharacteristicUuid(c) ==
    CASE c = "ConfigPinCode" -> X1_GATT_UUID_CONFIG_PIN_CODE
      [] c = "ConfigConnectedIdleTimeout" -> X1_GATT_UUID_CONFIG_CON_IDLE
      [] c = "ConfigDisconnectedIdleTimeout" -> X1_GATT_UUID_CONFIG_CON_IDLE

\* the characteristics a client finds under a UUID
CharacteristicsOf(uuid) == {c \in SettingChars : CharacteristicUuid(c) = uuid}

SettingInit ==
    /\ pin_code = DEFAULT_PIN
    /\ set_uuid = "none"
    /\ set_char = "none"
    /\ set_op = "none"
    /\ set_data = <<>>
    /\ set_value = <<>>
    /\ wr_empty = "none"

\* (data[3] << 24) | (data[2] << 16) | (data[1] << 8) | data[0], lines 532,
\* 655 and 701
Uint32Of(data) == data[1] + 256 * data[2] + 65536 * data[3] + 16777216 * data[4]

\* BLECharacteristic::setValue(uint32_t&): the four bytes of the value, the
\* lowest first
Uint32Bytes(v) ==
    <<v % 256, (v \div 256) % 256, (v \div 65536) % 256, (v \div 16777216) % 256>>

\* what a handler of the three characteristics leaves alone, the two
\* timeouts and the log aside
sweepTaskVars == <<now, sw_pc, sw_now, sw_idle, sw_wake, asleep, sw_down,
                   gap_disconnect_addr, last_forced_at>>
settingFrame == <<otaVars, btVars, framerVars, configVars, gapVars, shutdownVars,
                  sweepTaskVars, connected_client, last_activity_time, cccd,
                  advertising, link, btc_pc, reset_idx, assert_failed, connections,
                  forced_since_activity, output_callback_suspended, gatts_event, log_pc,
                  wr_empty>>

\* lines 527 and 533: the tests of the PIN handler
PinLengthAtLeast(length) == length >= 4
PinLengthOk(length) == length = 4
MaxPin == 999999
PinInBoundsBelow(pin) == pin < MaxPin
PinInBounds(pin) == pin <= MaxPin

\* Config PIN, onWrite (lines 523-541): every path prints one line
PinWrite(data) ==
    /\ set_char' = "ConfigPinCode"
    /\ set_op' = "write"
    /\ set_data' = data
    /\ set_value' = <<>>
    /\ IF ~PinLengthOk(Len(data)) THEN UNCHANGED pin_code
       ELSE IF ~PinInBounds(Uint32Of(data)) THEN UNCHANGED pin_code
       ELSE pin_code' = Uint32Of(data)
    /\ LogPrint("setting")
    /\ UNCHANGED <<conn_timeout, disconn_timeout, settingFrame>>

\* lines 650 and 696: the test of the two timeout handlers
TimeoutLengthOk(length) == length = 4

\* Connected Idle Timeout, onWrite (lines 646-660)
ConnectedIdleTimeoutWrite(data) ==
    /\ set_char' = "ConfigConnectedIdleTimeout"
    /\ set_op' = "write"
    /\ set_data' = data
    /\ set_value' = <<>>
    /\ IF ~TimeoutLengthOk(Len(data)) THEN UNCHANGED conn_timeout
       ELSE conn_timeout' = Uint32Of(data)
    /\ LogPrint("setting")
    /\ UNCHANGED <<pin_code, disconn_timeout, settingFrame>>

\* Disconnected Idle Timeout, onWrite (lines 692-706)
DisconnectedIdleTimeoutWrite(data) ==
    /\ set_char' = "ConfigDisconnectedIdleTimeout"
    /\ set_op' = "write"
    /\ set_data' = data
    /\ set_value' = <<>>
    /\ IF ~TimeoutLengthOk(Len(data)) THEN UNCHANGED disconn_timeout
       ELSE disconn_timeout' = Uint32Of(data)
    /\ LogPrint("setting")
    /\ UNCHANGED <<pin_code, conn_timeout, settingFrame>>

\* Connected Idle Timeout, onRead (lines 640-644)
ConnectedIdleTimeoutRead ==
    /\ set_char' = "ConfigConnectedIdleTimeout"
    /\ set_op' = "read"
    /\ set_data' = <<>>
    /\ set_value' = Uint32Bytes(conn_timeout)
    /\ UNCHANGED <<pin_code, conn_timeout, disconn_timeout, log_forwarded, btc_queue,
                   settingFrame>>

\* Disconnected Idle Timeout, onRead (lines 686-690)
DisconnectedIdleTimeoutRead ==
    /\ set_char' = "ConfigDisconnectedIdleTimeout"
    /\ set_op' = "read"
    /\ set_data' = <<>>
    /\ set_value' = Uint32Bytes(disconn_timeout)
    /\ UNCHANGED <<pin_code, conn_timeout, disconn_timeout, log_forwarded, btc_queue,
                   settingFrame>>

\* a client writes the characteristic it found under uuid
SettingWrite(uuid, data) ==
    /\ set_uuid' = uuid
    /\ \E c \in CharacteristicsOf(uuid) :
          CASE c = "ConfigPinCode" -> PinWrite(data)
            [] c = "ConfigConnectedIdleTimeout" -> ConnectedIdleTimeoutWrite(data)
            [] c = "ConfigDisconnectedIdleTimeout" -> DisconnectedIdleTimeoutWrite(data)

SettingWrites ==
    \E uuid \in SettingUuids : \E data \in SettingPayloads : SettingWrite(uuid, data)

\* a client reads the characteristic it found under uuid; the PIN
\* characteristic has no read property (line 544)
SettingRead(uuid) ==
    /\ set_uuid' = uuid
    /\ \E c \in CharacteristicsOf(uuid) \cap TimeoutChars :
          IF c = "ConfigConnectedIdleTimeout" THEN ConnectedIdleTimeoutRead
          ELSE DisconnectedIdleTimeoutRead

SettingReads == \E uuid \in SettingUuids : SettingRead(uuid)


(***************************************************************************)
(* The writes to BT Scan and BT Connect, from the length test on           *)
(* (ble.cpp, lines 356-369 and 433-457).                                   *)
(***************************************************************************)
\* the handler returns at "if (length < 1)" (lines 361-363, 438-440)
EmptyWrite(c) ==
    /\ ~bt_crashed
    /\ bt_op = "idle"
    /\ wr_empty' = c
    /\ UNCHANGED <<otaVars, sessionVars, sweepVars, btVars, framerVars, configVars,
                   gapVars, logVars, shutdownVars>>
    /\ UNCHANGED <<pin_code, set_uuid, set_char, set_op, set_data, set_value>>

\* the handler of BT Connect returns at "if (!address_opt)" (lines 449-453)
AddressNotSet ==
    /\ ~bt_crashed
    /\ bt_op = "idle"
    /\ UNCHANGED vars

\* ble.h, line 8
X1_GATT_UUID_BT_SCAN == "00002002-7858-48fb-b797-8613e960da6a"

\* the state byte onRead sets (lines 347-352)
BtScanValue ==
    IF is_scanning THEN 1
    ELSE IF ~can_scan THEN 255
    ELSE 0

\* BT Scan, onRead (lines 346-354)
BtScanRead ==
    /\ ~bt_crashed
    /\ bt_op = "idle"
    /\ bt_last' = "read"
    /\ bt_ret' = "none"
    /\ set_uuid' = X1_GATT_UUID_BT_SCAN
    /\ set_char' = "BtScan"
    /\ set_op' = "read"
    /\ set_data' = <<>>
    /\ set_value' = <<BtScanValue>>
    /\ UNCHANGED <<can_scan, scan_task, scans, discovery, connect_task, conns, bt_client,
                   bt_op, bt_step, bt_crashed, is_scanning, scan_at_call, retry_count,
                   discs, bt_sent, bt_h, bt_data>>
    /\ UNCHANGED <<otaVars, sessionVars, sweepVars, framerVars, configVars, gapVars,
                   logVars, shutdownVars, pin_code, wr_empty>>

\* BT Scan, onWrite (lines 356-398)
BtScanWrite(data) ==
    IF Len(data) < 1 THEN EmptyWrite("BtScan")
    ELSE IF data[1] = 0 THEN CancelCall
    ELSE ScanCall

\* BT Connect, onWrite (lines 433-465)
BtConnectWrite(data) ==
    IF Len(data) < 1 THEN EmptyWrite("BtConnect")
    ELSE IF data[1] = 0 THEN DisconnectCall
    ELSE IF ~getBtAddress.has_value THEN AddressNotSet
    ELSE ConnectCall(RetryCount)

(***************************************************************************)
(* Specifications: one per engine, over the shared state.                  *)
(***************************************************************************)
\* the state of an engine that takes no step in a specification
OtaQuiet == OtaInit
SessionQuiet == SessionInit
SweepQuiet == SweepInit /\ conn_timeout = MaxTimeout /\ disconn_timeout = MaxTime
BtQuiet == BtInit
FramerQuiet == FramerInit
ConfigQuiet == ConfigInit
GapQuiet == GapInit
Quiet(ota, session, sweep, bt, framer, config) ==
    /\ GapQuiet
    /\ LogInit
    /\ ShutdownInit
    /\ SettingInit
    /\ ota \/ OtaQuiet
    /\ session \/ SessionQuiet
    /\ sweep \/ SweepQuiet
    /\ bt \/ BtQuiet
    /\ framer \/ FramerQuiet
    /\ config \/ ConfigQuiet

\* the OTA engine: writes to the OTA characteristic and the deferred restart
InitOta == OtaInit /\ Quiet(TRUE, FALSE, FALSE, FALSE, FALSE, FALSE)
NextOta == OtaWrites \/ OtaCleanup \/ OtaRestart
SpecOta == InitOta /\ [][NextOta]_vars

\* the start of an OTA session: Start messages with sizes over the whole
\* width of the size field, and the chunks that follow
WideSizes == {<<0, 0, 0, 0>>, <<2, 0, 0, 0>>, <<1, 2, 3, 4>>, <<255, 255, 255, 127>>,
              <<0, 0, 0, 128>>, <<255, 255, 255, 255>>}
WideStartMsgs == {<<1, 1>> \o b : b \in WideSizes}
InitOtaStart == InitOta
NextOtaStart ==
    \/ \E msg \in WideStartMsgs : \E fault \in OtaFaults(msg) :
          ota_handles < MaxHandles /\ OtaWrite(msg, fault)
    \/ \E msg \in ChunkMsgs \cup FinishMsgs : \E fault \in OtaFaults(msg) : OtaWrite(msg, fault)
SpecOtaStart == InitOtaStart /\ [][NextOtaStart]_vars

\* the BLE session: link events, the server callbacks and descriptor writes
InitSession == SessionInit /\ Quiet(FALSE, TRUE, FALSE, FALSE, FALSE, FALSE)
NextSession == SessionStep \/ CccdWrites
SpecSession == InitSession /\ [][NextSession]_vars

\* the idle sweep next to the BLE session, with the clock
InitIdle == SessionInit /\ SweepInit /\ Quiet(FALSE, TRUE, TRUE, FALSE, FALSE, FALSE)
NextIdle == SessionStep \/ GattsActivity \/ Tick \/ SweepStep
SpecIdle == InitIdle /\ [][NextIdle]_vars

\* the idle sweep next to the BLE session, with the GATT events of the custom
\* handler and the lines logged by the data callback
InitActivity ==
    /\ SessionInit /\ SweepInit
    /\ conn_timeout = SweepPeriod
    /\ disconn_timeout = MaxTime
    /\ Quiet(FALSE, TRUE, TRUE, FALSE, FALSE, FALSE)
SweepForced == SweepSample \/ SweepTest \/ SweepDisconnect \/ SweepReset
NextActivity ==
    \/ SessionStep
    \/ DebugLogEnable
    \/ GattsEvents
    \/ DataLog
    \/ Tick
    \/ SweepForced
SpecActivity == InitActivity /\ [][NextActivity]_vars

\* the log output: the BLE session, the custom GAP and GATTS handlers on the
\* BLE event task, and the suspended block of the bleTimeout task
InitLog == SessionInit /\ Quiet(FALSE, TRUE, FALSE, FALSE, FALSE, FALSE)
NextLog ==
    \/ SessionStep
    \/ DebugLogEnable
    \/ AuthCompleted
    \/ GattsSteps
    \/ SweepLogSteps
SpecLog == InitLog /\ [][NextLog]_vars

\* the four ways to a restart or a deep sleep: the Restart and Sleep
\* characteristics, an update that succeeds, and the sweep of an idle device
\* (stored timeouts of zero: the first sweep finds the device idle)
InitShutdown ==
    /\ OtaInit
    /\ SweepTaskInit
    /\ conn_timeout = 0
    /\ disconn_timeout = 0
    /\ Quiet(TRUE, FALSE, TRUE, FALSE, FALSE, FALSE)
NextShutdown ==
    \/ RestartWrites
    \/ SleepWrite
    \/ OtaUpdates
    \/ OtaCleanup
    \/ OtaRestart
    \/ SleepCleanup
    \/ SleepSleep
    \/ SweepSample
    \/ SweepTest
    \/ SweepCleanup
    \/ SweepSleep
SpecShutdown == InitShutdown /\ [][NextShutdown]_vars

\* the same, where the sweep task, once it has decided to sleep, is
\* scheduled until it has
SpecIdleFair == SpecIdle /\ WF_vars(SweepCleanup \/ SweepSleep)

\* the Bluetooth Classic bridge: the calls, the scan tasks and the connect tasks
InitBt == BtInit /\ Quiet(FALSE, FALSE, FALSE, TRUE, FALSE, FALSE)
NextBt ==
    \/ ScanCall
    \/ CancelCall
    \/ ConnectCall(RetryCount)
    \/ CancelCheck
    \/ CancelStop
    \/ CancelNotify
    \/ CancelClear
    \/ ScanDiscover
    \/ ConnectCreate
    \/ ScanPolls
    \/ ScanStops
    \/ ScanClears
    \/ ScanFinisheds
    \/ ConnectAttempts
    \/ ConnectPolls \/ ConnectClears \/ ConnectChangeds \/ ConnectReports
    \/ BtLinkLoss
SpecBt == InitBt /\ [][NextBt]_vars

\* the scan side of the bridge: the calls scan(), cancelScan() and connect()
\* and the scan tasks.  The connect tasks, which touch nothing a scan reads,
\* are created and left at their start; they run in SpecBt, SpecConnect and
\* SpecLink.
InitScan == InitBt
NextScan ==
    \/ ScanCall
    \/ CancelCall
    \/ ConnectCall(RetryCount)
    \/ CancelCheck
    \/ CancelStop
    \/ CancelNotify
    \/ CancelClear
    \/ ScanDiscover
    \/ ConnectCreate
    \/ ScanPolls
    \/ ScanStops
    \/ ScanClears
    \/ ScanFinisheds
SpecScan == InitScan /\ [][NextScan]_vars

\* the scan engine with the reads of the BT Scan characteristic
InitScanRead == InitBt
NextScanRead == NextScan \/ BtScanRead
SpecScanRead == InitScanRead /\ [][NextScanRead]_vars

\* the connect side of the bridge: the same calls and the connect tasks.
\* The scan tasks are created and left at their start; they run in SpecBt
\* and SpecScan.
InitConnect == InitBt
NextConnect ==
    \/ ScanCall
    \/ CancelCall
    \/ ConnectCall(RetryCount)
    \/ CancelCheck
    \/ CancelStop
    \/ CancelNotify
    \/ CancelClear
    \/ ScanDiscover
    \/ ConnectCreate
    \/ ConnectAttempts
    \/ ConnectReports
    \/ ConnectPolls
    \/ ConnectClears
    \/ ConnectChangeds
    \/ BtLinkLoss
SpecConnect == InitConnect /\ [][NextConnect]_vars

\* the connect tasks: connect() with every retry count, and the link
ConnectSteps ==
    \/ ConnectCalls
    \/ CancelCheck
    \/ ConnectCreate
    \/ ConnectAttempts
    \/ ConnectReports
    \/ ConnectPolls
    \/ ConnectClears
    \/ ConnectChangeds
    \/ BtLinkLoss

\* the target link: connect() and disconnect(), with no scan
InitLink == InitBt
NextLink ==
    \/ ConnectSteps
    \/ DisconnectCall
    \/ DisconnectStops
    \/ DisconnectChecks
    \/ DisconnectNotifies
    \/ DisconnectClears
SpecLink == InitLink /\ [][NextLink]_vars

\* the same, where the scheduler lets every task that can take a step take
\* one (the tasks have the same priority and are time-sliced)
ConnectTaskStep ==
    ConnectAttempts \/ ConnectReports \/ ConnectPolls \/ ConnectClears \/ ConnectChangeds
DisconnectTaskStep ==
    DisconnectStops \/ DisconnectChecks \/ DisconnectNotifies \/ DisconnectClears
SpecLinkFair == SpecLink /\ WF_vars(ConnectTaskStep) /\ WF_vars(DisconnectTaskStep)

\* the serial relay: connect(), isConnected() and write(), with no scan
InitSerial == InitBt
NextSerial ==
    \/ ConnectSteps
    \/ BtConnectRead
    \/ SerialDataWrites
    \/ IsConnectedTest
    \/ IsConnectedCheck
    \/ IsConnectedNotify
    \/ IsConnectedClear
SpecSerial == InitSerial /\ [][NextSerial]_vars

\* the BT Connect characteristic: the writes, the target address they read
\* and the connect and disconnect tasks they start.  The address is written
\* by the BLE event task, between two calls of Bluetooth; a disconnect is
\* requested when the task of the one before has ended.
ConnectWriteData == {<<>>, <<0>>, <<1>>, <<255>>}
TargetAddresses == {<<>>, <<0, 6, 102, 0, 0, 1>>}
InitBtConnect == BtInit /\ ConfigInit /\ Quiet(FALSE, FALSE, FALSE, TRUE, FALSE, TRUE)
NextBtConnect ==
    \/ \E data \in TargetAddresses : bt_op = "idle" /\ AddressWrite(data)
    \/ \E data \in ConnectWriteData :
          (data = <<0>> => discs = EmptyBag) /\ BtConnectWrite(data)
    \/ CancelCheck
    \/ ConnectCreate
    \/ ConnectAttempts
    \/ ConnectReports
    \/ ConnectPolls
    \/ ConnectClears
    \/ ConnectChangeds
    \/ BtLinkLoss
    \/ DisconnectStops
    \/ DisconnectChecks
    \/ DisconnectNotifies
    \/ DisconnectClears
SpecBtConnect == InitBtConnect /\ [][NextBtConnect]_vars

\* connect() called again: the calls and the connect tasks, with no scan
\* and no disconnect()
InitReconnect == InitBt
NextReconnect ==
    \/ ConnectCallUpTo(RetryCount, MaxReconnects)
    \/ CancelCheck
    \/ ConnectCreate
    \/ ConnectAttempts
    \/ ConnectReports
    \/ ConnectPolls
    \/ ConnectClears
    \/ ConnectChangeds
    \/ BtLinkLoss
SpecReconnect == InitReconnect /\ [][NextReconnect]_vars

\* the idle sweep of a firmware that starts again: the BLE session, the
\* clock, the sweep, and one restart asked for by the Restart characteristic
InitWake ==
    /\ OtaInit
    /\ SessionInit
    /\ SweepTaskInit
    /\ conn_timeout = MaxTimeout
    /\ disconn_timeout \in DisconnTimeouts
    /\ Quiet(TRUE, TRUE, TRUE, FALSE, FALSE, FALSE)
NextWake ==
    \/ SessionStep
    \/ GattsActivity
    \/ Tick
    \/ SweepStep
    \/ boot_time = 0 /\ restart_tasks = 0 /\ RestartWrite(<<>>)
    \/ OtaCleanup
    \/ OtaRestart
SpecWake == InitWake /\ [][NextWake]_vars

\* the three settings characteristics, from the defaults
InitSettings == Quiet(FALSE, FALSE, FALSE, FALSE, FALSE, FALSE)
NextSettings == SettingWrites \/ SettingReads
SpecSettings == InitSettings /\ [][NextSettings]_vars

\* the writes a client may get wrong: one payload pattern cut to no byte,
\* to four bytes and to the longest payload for the three settings, one
\* target address cut short, one scan or one connect attempt, and the start
\* of one update
CutPayloads == {SubSeq(<<5, 0, 0, 0, 0, 0, 0>>, 1, k) : k \in {0, 4, MaxPayload}}
\* no scan() and no connect() was entered yet
NoBtCall == bt_last = "none"
CutAddresses == {SubSeq(<<0, 6, 102, 0, 0, 1>>, 1, k) : k \in {1, 5, 6}}
BtWriteData == {<<>>, <<1>>}
OtaWriteData == {<<>>, <<1, 1, 1, 0, 0, 0>>}
InitWrites == OtaInit /\ BtInit /\ ConfigInit /\ Quiet(TRUE, FALSE, FALSE, TRUE, FALSE, TRUE)
NextWrites ==
    \/ \E uuid \in SettingUuids : \E data \in CutPayloads : SettingWrite(uuid, data)
    \/ \E data \in CutAddresses : AddressWrite(data)
    \/ \E data \in BtWriteData : (data = <<>> \/ NoBtCall) /\ BtScanWrite(data)
    \/ \E data \in BtWriteData : (data = <<>> \/ NoBtCall) /\ BtConnectWrite(data)
    \/ \E msg \in OtaWriteData : (msg = <<>> \/ ota_handles = 0) /\ OtaWrite(msg, "none")
    \/ CancelCheck
    \/ ScanDiscover
    \/ ConnectCreate
    \/ ScanPolls
    \/ ScanStops
    \/ ScanClears
    \/ ScanFinisheds
SpecWrites == InitWrites /\ [][NextWrites]_vars

\* the custom GAP handler: the GAP events of the BLE stack
InitGap == GapInit /\ Quiet(FALSE, FALSE, FALSE, FALSE, FALSE, FALSE)
NextGap == CustomGapHandlers
SpecGap == InitGap /\ [][NextGap]_vars

\* the inbound framer: calls of the data callback
InitFramer == FramerInit /\ Quiet(FALSE, FALSE, FALSE, FALSE, TRUE, FALSE)
NextFramer == DataCallbacks
SpecFramer == InitFramer /\ [][NextFramer]_vars

\* the target address setting: writes and reads of the characteristic
InitConfig == ConfigInit /\ Quiet(FALSE, FALSE, FALSE, FALSE, FALSE, TRUE)
NextConfig == AddressWrites \/ AddressRead
SpecConfig == InitConfig /\ [][NextConfig]_vars

(***************************************************************************)
(* Claims about the OTA engine.                                            *)
(***************************************************************************)
\* the Finish reported success in this step
OtaSucceeded == ota_out' = <<1>>

\* the signature verifies over the digest of the bytes written since Start
SignedOverWritten(sig) == sig = EcdsaSign(Sha256Of(ota_flash))

\* C1 as stated, for a Finish received in a session that is receiving: it
\* reports success and switches the boot partition if and only if
\* bytes_written equals the expected size and the signature verifies over
\* the digest of the chunk bytes accepted since the Start; otherwise it
\* fails and the boot partition stays.
C1_FinishIffSizeAndSignature ==
    [][ota_type' = 3 /\ image_size # 0 /\ sha_live =>
          \A msg \in FinishMsgs :
              ota_fault' \in OtaFaults(msg) /\ OtaWrite(msg, ota_fault') =>
                  IF bytes_written = image_size /\ SignedOverWritten(Tail(msg))
                  THEN OtaSucceeded /\ boot_partition' = ota_partition
                  ELSE ~OtaSucceeded /\ boot_partition' = boot_partition]_vars

\* C1 amended: a Finish reports success and switches the boot partition if
\* and only if a session is active (image_size nonzero) in which no Finish
\* succeeded before, bytes_written equals image_size, the signature verifies
\* over the digest of the bytes written since the Start, and no library
\* call of the verification, the commit or the boot switch fails; in every
\* other case no success is reported and the boot partition stays.
C1_FinishSuccessExactly ==
    [][ota_type' = 3 =>
        \A msg \in FinishMsgs :
          ota_fault' \in OtaFaults(msg) /\ OtaWrite(msg, ota_fault') =>
              IF /\ image_size # 0
                 /\ sha_live
                 /\ bytes_written = image_size
                 /\ SignedOverWritten(Tail(msg))
                 /\ ota_fault' = "none"
              THEN /\ OtaSucceeded
                   /\ boot_partition' = ota_partition
                   /\ restart_tasks' = restart_tasks + 1
              ELSE /\ ~OtaSucceeded
                   /\ boot_partition' = boot_partition
                   /\ restart_tasks' = restart_tasks]_vars

\* a Finish succeeded on a full image of two bytes or more and switched the
\* boot partition away from the running one
C1_Witness ==
    /\ ota_type = 3
    /\ ota_out = <<1>>
    /\ boot_partition # running_partition
    /\ bytes_written = image_size
    /\ Len(ota_flash) >= 2

\* C2: while a session is active bytes_written never exceeds image_size; a
\* Chunk that would overflow it writes nothing, ends the session (image_size
\* 0, handle released) with one failure notification and leaves the boot
\* partition alone; with no session a Chunk or Finish changes nothing.
C2_NoOverflow ==
    /\ [](image_size # 0 => bytes_written <= image_size /\ bytes_written = Len(ota_flash))
    /\ [][(/\ ota_type' = 2
            /\ \E msg \in ChunkMsgs :
                 /\ image_size # 0
                 /\ bytes_written + (Len(msg) - 1) > image_size
                 /\ ota_fault' \in OtaFaults(msg)
                 /\ OtaWrite(msg, ota_fault'))
             => /\ ota_flash' = ota_flash
                /\ bytes_written' = bytes_written
                /\ image_size' = 0
                /\ ~ota_handle_open'
                /\ ota_handles' <= ota_handles
                /\ ota_out' = <<0>>
                /\ boot_partition' = boot_partition
                /\ restart_tasks' = restart_tasks]_vars
    /\ [][(/\ ota_type' \in {2, 3}
            /\ image_size = 0
            /\ \E msg \in ChunkMsgs \cup FinishMsgs :
                 /\ msg[1] = ota_type'
                 /\ ota_fault' \in OtaFaults(msg)
                 /\ OtaWrite(msg, ota_fault'))
             => /\ ota_out' = <<>>
                /\ UNCHANGED <<image_size, bytes_written, sha_ctx, sha_live,
                               ota_handle_open, ota_handles, ota_flash,
                               boot_partition, restart_tasks>>]_vars

\* a second chunk overflowed the announced size: the session is gone, the
\* failure was notified and the first chunk's bytes are all that was written
C2_Witness ==
    /\ ota_type = 2
    /\ ota_fault = "none"
    /\ ota_out = <<0>>
    /\ image_size = 0
    /\ bytes_written > 0
    /\ Len(ota_flash) = bytes_written
    /\ ~ota_handle_open
    /\ boot_partition = running_partition

(***************************************************************************)
(* Claims about the BLE session.                                           *)
(***************************************************************************)
\* C3: at most one session is active at any time: whenever the event task is
\* about to run onConnect no peer is recorded, so the assertion of onConnect
\* never fails; the recorded peer, if any, is one peer address.
C3_SingleSession ==
    /\ ~assert_failed
    /\ NextEvent("connect") => connected_client = None
    /\ connected_client \in Peers \cup {None}

\* a second peer is recorded after the session of a first one ended
C3_Witness ==
    /\ connections = 2
    /\ connected_client # None
    /\ link = connected_client
    /\ btc_queue = <<>>

\* every notify and indicate subscription is off
AllSubscriptionsOff ==
    \A d \in Descriptors : ~getNotifications(cccd[d]) /\ ~getIndications(cccd[d])

\* C4: when onDisconnect restarts advertising the peer identity is cleared
\* and every client-configuration descriptor has notifications and
\* indications off; they stay so while the device advertises, so a link
\* comes up, and its connect event is processed, with every subscription off.
C4_ResetBeforeAdvertising ==
    /\ [][~advertising /\ advertising' => connected_client' = None /\ AllSubscriptionsOff']_vars
    /\ [](advertising => connected_client = None /\ AllSubscriptionsOff)
    /\ [][link = None /\ link' # None => AllSubscriptionsOff /\ AllSubscriptionsOff']_vars
    /\ [](NextEvent("connect") => AllSubscriptionsOff)

\* onDisconnect is half way through subscriptions a peer had enabled
C4_Witness ==
    /\ btc_pc = "reset"
    /\ reset_idx = 4
    /\ connected_client = None
    /\ ~advertising
    /\ \A d \in 1..3 : cccd[d] = 0
    /\ getNotifications(cccd[4]) /\ getIndications(cccd[4])
    /\ getNotifications(cccd[6])

scanState == <<scan_task, scans, discovery>>

\* C6: can_scan never changes from false back to true; once connect() has
\* been invoked canScan() is false, whatever became of the attempt; and a
\* scan() entered with can_scan false returns false at once, leaving the
\* discovery, the scan tasks and the connect tasks as they were.
C6_ScanDisabledForever ==
    /\ [][~canScan => ~canScan']_vars
    /\ [](bt_op = "connect" \/ conns # <<>> => ~canScan)
    /\ [][ScanCall /\ ~canScan =>
            /\ bt_ret' = "false"
            /\ bt_op' = "idle"
            /\ UNCHANGED <<scanState, connect_task, conns, bt_client>>]_vars

\* scan() returned false after a connect() whose attempts all failed
C6_Witness ==
    /\ bt_last = "scan"
    /\ bt_op = "idle"
    /\ bt_ret = "false"
    /\ ~canScan
    /\ Len(conns) = 1
    /\ conns[1].pc = "deleted"
    /\ conns[1].changed = <<FALSE>>

\* C9 as stated: a scan() entered while scanning is disabled, or while a
\* scan or a connect is active, returns false at once and disturbs nothing.
C9_ScanFailsWhenBusy ==
    /\ [][ScanCall /\ (~canScan \/ ScanActive \/ ConnectActive) =>
            /\ bt_ret' = "false"
            /\ bt_op' = "idle"
            /\ UNCHANGED <<scanState, connect_task, conns>>]_vars
    /\ [](bt_last = "scan" /\ bt_op = "idle" /\ scan_at_call # None =>
            bt_ret = "false" /\ ~scans[scan_at_call].given)

\* C9 amended: scan() returns false at once, disturbing nothing, exactly when
\* scanning is disabled, which is the case whenever a connect is active.
\* Entered with scanning enabled it first cancels the scan scan_task names
\* (that scan is notified and the handle cleared) and then starts a new
\* discovery: it returns true exactly when discoverAsync accepted, with a new
\* scan task in scan_task, and false otherwise, creating no task.
C9_ScanCancelsAndRestarts ==
    /\ [][ScanCall /\ ~canScan =>
            /\ bt_ret' = "false"
            /\ bt_op' = "idle"
            /\ UNCHANGED <<scanState, connect_task, conns>>]_vars
    /\ [](ConnectActive => ~canScan)
    /\ [][ScanCall /\ canScan => bt_op' = "scan" /\ bt_step' = "check" /\ bt_ret' = "none"]_vars
    /\ [][bt_op = "scan" /\ bt_step = "notify" /\ bt_step' = "clear" =>
            scans'[scan_task].notify /\ discovery = None]_vars
    /\ [][bt_op = "scan" /\ bt_step = "clear" /\ bt_step' # "clear" =>
            scan_task' = None /\ bt_step' = "discover"]_vars
    /\ [][bt_op = "scan" /\ bt_op' = "idle" =>
            /\ bt_ret' \in {"true", "false"}
            /\ bt_ret' = "true" <=> Len(scans') = Len(scans) + 1
            /\ bt_ret' = "true" => scan_task' = Len(scans') /\ discovery' = scan_task'
            /\ bt_ret' = "false" => UNCHANGED scanState]_vars

\* scan() was entered while an earlier scan was polling: it cancelled that
\* scan and returned true with a second scan task
C9_Witness ==
    /\ bt_last = "scan"
    /\ bt_op = "idle"
    /\ bt_ret = "true"
    /\ scan_at_call = 1
    /\ scans[1].given
    /\ scan_task = 2
    /\ discovery = 2

\* C10 as stated: every scan task polls at most MaxInq times and invokes
\* on_finished once, with canceled true only if cancelScan() notified it and
\* false only if all its polls elapsed; a cancelScan() that races with the
\* natural end of a scan does not stop the firmware before that scan's
\* callback has run; and cancelScan() with no scan in flight changes nothing.
C10_FinishedExactlyOnce ==
    /\ [](\A id \in 1..Len(scans) :
            /\ scans[id].t <= MaxInq
            /\ Len(scans[id].fin) <= 1
            /\ scans[id].pc = "deleted" <=> Len(scans[id].fin) = 1
            /\ scans[id].fin # <<>> =>
                  /\ scans[id].fin[1] => scans[id].given
                  /\ ~scans[id].fin[1] => scans[id].t = MaxInq
            /\ bt_crashed /\ bt_step = "notify" => scans[id].fin # <<>>)
    /\ [][bt_op = "cancel" /\ bt_step = "check" /\ scan_task = None /\ bt_step' # "check" =>
            bt_op' = "idle" /\ UNCHANGED <<scanState, is_scanning, connect_task, conns>>]_vars

(***************************************************************************)
(* Claims about the inbound framer.                                        *)
(***************************************************************************)
RECURSIVE Flatten(_)
Flatten(frames) == IF frames = <<>> THEN <<>> ELSE Head(frames) \o Flatten(Tail(frames))

\* number of terminator bytes in s
Terminators(s) == Cardinality({i \in 1..Len(s) : s[i] = Terminator})

\* C7: whatever the split of the stream into calls, the frames notified so
\* far followed by the buffer are the bytes received so far; there is one
\* frame per terminator received; every frame ends with its only terminator
\* and the buffer holds none; a call only adds frames; and the stream
\* 01 02 0A 03 0A gives the frames 01 02 0A and 03 0A.
C7_FramesPartitionStream ==
    /\ [](Flatten(frm_emitted) \o frm_buffer = frm_fed)
    /\ [](Len(frm_emitted) = Terminators(frm_fed))
    /\ [](\A k \in 1..Len(frm_emitted) :
            /\ frm_emitted[k][Len(frm_emitted[k])] = Terminator
            /\ Terminators(frm_emitted[k]) = 1)
    /\ [](Terminators(frm_buffer) = 0)
    /\ [][Len(frm_emitted') >= Len(frm_emitted)
          /\ SubSeq(frm_emitted', 1, Len(frm_emitted)) = frm_emitted]_vars
    /\ [](frm_fed = <<1, 2, Terminator, 3, Terminator>> =>
            frm_emitted = <<<<1, 2, Terminator>>, <<3, Terminator>>>> /\ frm_buffer = <<>>)

\* the stream 01 02 0A 03 0A 01, received in three calls that split the
\* frames, gave two frames and left one byte buffered
C7_Witness ==
    /\ frm_fed = <<1, 2, Terminator, 3, Terminator, 1>>
    /\ frm_calls = 3
    /\ frm_emitted = <<<<1, 2, Terminator>>, <<3, Terminator>>>>
    /\ frm_buffer = <<1>>

(***************************************************************************)
(* Claims about the target address setting.                                *)
(***************************************************************************)
\* Config::getBtAddressName
getBtAddressName == getString(nvs_name)

\* C8 as stated: after a write of no bytes neither address nor name is
\* stored; after a write of 6 + n bytes the first 6 are the stored address
\* and the other n the stored name; a read that follows returns the address
\* followed by the name.
C8_AddressAndNameStored ==
    /\ cfg_written /\ Len(cfg_last) = 0 =>
          /\ ~getBtAddress.has_value
          /\ ~getBtAddressName.has_value
          /\ cfg_has_read => cfg_read = <<>>
    /\ cfg_written /\ Len(cfg_last) >= 6 =>
          /\ getBtAddress = [has_value |-> TRUE, value |-> SubSeq(cfg_last, 1, 6)]
          /\ getBtAddressName = [has_value |-> TRUE, value |-> SubSeq(cfg_last, 7, Len(cfg_last))]
          /\ cfg_has_read => cfg_read = cfg_last

\* C8, what the code does: as stated, except that the stored name is the
\* part of the other n bytes that precedes their first zero byte, and that
\* is what a read returns after the address.
C8_NameStoredUpToZeroByte ==
    /\ cfg_written /\ Len(cfg_last) = 0 =>
          /\ ~getBtAddress.has_value
          /\ ~getBtAddressName.has_value
          /\ cfg_has_read => cfg_read = <<>>
    /\ cfg_written /\ Len(cfg_last) >= 6 =>
          /\ getBtAddress = [has_value |-> TRUE, value |-> SubSeq(cfg_last, 1, 6)]
          /\ getBtAddressName =
                [has_value |-> TRUE, value |-> CStr(SubSeq(cfg_last, 7, Len(cfg_last)))]
          /\ cfg_has_read =>
                cfg_read = SubSeq(cfg_last, 1, 6) \o CStr(SubSeq(cfg_last, 7, Len(cfg_last)))
          /\ Len(cfg_last) = 6 => getBtAddressName.value = <<>>

\* an address with a name of two bytes, the first of them zero, was written
\* and read back
C8_Witness ==
    /\ cfg_has_read
    /\ Len(cfg_last) = 8
    /\ cfg_last[7] = 0
    /\ cfg_last[8] = 65
    /\ cfg_read = SubSeq(cfg_last, 1, 6)

(***************************************************************************)
(* Claims about the connect task and disconnect().                         *)
(***************************************************************************)
\* the connect tasks there can be
ConnectIds == 1..MaxConnectTasks

ChangedHistories == {<<>>, <<FALSE>>, <<TRUE>>, <<TRUE, FALSE>>}

\* C12: a task that reported on_changed(true) reports on_changed(false) once
\* when it leaves the monitor loop and nothing after that; and, the firmware
\* running, it does not stay in the monitor loop while the link stays down,
\* a notification is pending for it, or a disconnect() task is there.
C12_OneFalseAfterTrue ==
    /\ [](\A id \in 1..Len(conns) :
            /\ conns[id].changed \in ChangedHistories
            /\ conns[id].pc \in {"monitor", "clear", "callback"} => conns[id].changed = <<TRUE>>
            /\ conns[id].pc = "deleted" /\ conns[id].connected =>
                  conns[id].changed = <<TRUE, FALSE>>)
    /\ [][\A id \in 1..Len(conns) :
            /\ conns[id].pc = "deleted" => conns'[id].changed = conns[id].changed
            /\ conns'[id].changed # conns[id].changed =>
                  Len(conns'[id].changed) = Len(conns[id].changed) + 1]_vars
    /\ \A id \in ConnectIds :
          []<>(\/ bt_crashed
               \/ Len(conns) < id
               \/ conns[id].pc # "monitor"
               \/ bt_client /\ ~conns[id].notify /\ discs = EmptyBag)

\* a task reported on_changed(true), found the link gone by polling, with no
\* notification, and reported on_changed(false)
C12_Witness ==
    \E id \in 1..Len(conns) :
        /\ conns[id].changed = <<TRUE, FALSE>>
        /\ ~conns[id].notified
        /\ conns[id].pc = "deleted"

\* no link is up and no connect() is in flight
LinkIdle ==
    /\ ~bt_client
    /\ bt_op # "connect"
    /\ \A id \in 1..Len(conns) : conns[id].pc = "deleted"

\* a step of a disconnect() task
DisconnectTaskStepped == discs' # discs /\ BagCardinality(discs') <= BagCardinality(discs)

\* C13, with a link active: however many disconnect() tasks run, the task of
\* that link reports on_changed(false) at most once, SerialBT.disconnect
\* takes the link down, and only an attempt of a connect task brings it up.
C13_LinkDownOnce ==
    /\ [](\A id \in 1..Len(conns) :
            conns[id].connected => conns[id].changed \in {<<>>, <<TRUE>>, <<TRUE, FALSE>>})
    /\ [][/\ (\E d \in BagToSet(discs) :
                  d.pc = "stop" /\ CopiesIn(d, discs') < CopiesIn(d, discs)) => ~bt_client'
          /\ bt_client' /\ ~bt_client =>
                \E id \in 1..Len(conns) : conns[id].pc = "retry" /\ conns'[id].pc = "report"]_vars

\* C13 as stated: the above, and with no link and no connect in flight a
\* disconnect() makes no callback, changes nothing of the link or of the
\* connect tasks and lets the firmware run.
C13_DisconnectIdempotent ==
    /\ C13_LinkDownOnce
    /\ [][LinkIdle /\ DisconnectTaskStepped =>
            /\ conns' = conns
            /\ bt_client' = bt_client
            /\ bt_crashed' = bt_crashed]_vars

\* a link was up, disconnect() notified its task, and the task reported
\* on_changed(false) once and ended with the link down
C13_Witness ==
    \E id \in 1..Len(conns) :
        /\ conns[id].changed = <<TRUE, FALSE>>
        /\ conns[id].notified
        /\ conns[id].pc = "deleted"
        /\ ~bt_client

----------------------------------------------------------------------------
\* Claims about write() and the Serial Data characteristic

\* C14: write() hands bytes to SerialBT.write only when hasClient() holds at
\* its test, and otherwise returns false having sent nothing; the bytes the
\* Serial Data write forwards are the bytes written, and with no link at
\* either test the write is dropped.
C14_WriteOnlyWhenConnected ==
    [][/\ bt_sent' # bt_sent =>
            /\ bt_op = "write"
            /\ bt_client
            /\ bt_sent' = Append(bt_sent, bt_data)
       /\ bt_op # "idle" => bt_data' = bt_data
       /\ bt_op \in {"serial", "write"} /\ bt_step = "ic_test" /\ bt_step' # bt_step /\ ~bt_client =>
            /\ bt_step' = "ic_check"
            /\ bt_sent' = bt_sent
       /\ bt_op \in {"serial", "write"} /\ bt_step \in {"ic_check", "ic_notify", "ic_clear"} =>
            /\ bt_sent' = bt_sent
            /\ bt_op' \in {bt_op, "idle"}
            /\ bt_op' = "idle" =>
                  bt_ret' = IF bt_op = "serial" THEN "dropped" ELSE "false"]_vars

\* one Serial Data write was forwarded whole and a later one was dropped
C14_Witness ==
    /\ Len(bt_sent) >= 1
    /\ bt_sent[1] \in SerialPayloads
    /\ bt_op = "idle"
    /\ bt_ret = "dropped"

----------------------------------------------------------------------------
\* Claims about the failures of the OTA engine

\* one write to the OTA characteristic of the given message type
OtaWritten(type) == ota_seq' # ota_seq /\ ota_type' = type

\* a Start that opened no flash handle
StartFailed == OtaWritten(1) /\ ota_handles' = ota_handles

\* the write left the session, the flash and the boot partition alone and
\* notified nothing
OtaUntouched ==
    /\ ota_out' = <<>>
    /\ UNCHANGED <<image_size, bytes_written, sha_ctx, sha_live, ota_handle_open,
                   ota_handles, ota_flash, boot_partition, restart_tasks>>

OtaWrittenOther ==
    /\ ota_seq' # ota_seq
    /\ ota_type' \notin {1, 2, 3}
    /\ ~(restart_tasks > 0 /\ restart_tasks' = 0)

\* C16: a Chunk or a Finish written while image_size is 0, a write of no
\* byte and a write of an unknown type byte write nothing to flash, leave
\* the digest, bytes_written, the session and the boot partition as they
\* were and notify nothing.
C16_RejectedWithoutSession ==
    [][/\ image_size = 0 /\ (OtaWritten(2) \/ OtaWritten(3)) =>
            OtaUntouched /\ UNCHANGED running_partition
       /\ OtaWrittenOther => OtaUntouched /\ UNCHANGED running_partition]_vars

\* a Finish arrived with no session, after an earlier session had written
\* to flash and was aborted
C16_Witness ==
    /\ ota_type = 3
    /\ image_size = 0
    /\ ota_out = <<>>
    /\ bytes_written > 0

\* msg is a Chunk or a Finish that fails in a session in flight
OtaErrorInFlight(msg, fault) ==
    /\ image_size # 0
    /\ \/ /\ msg \in ChunkMsgs
          /\ Len(msg) > 1
          /\ bytes_written + (Len(msg) - 1) > image_size \/ fault # "none"
       \/ /\ msg \in FinishMsgs
          /\ \/ bytes_written # image_size
             \/ fault # "none"
             \/ ~EcdsaVerify(Sha256Finish(sha_ctx, sha_live), Tail(msg))

\* C17: a chunk that overflows the announced size or fails to write, a
\* Finish with a size mismatch, a verification that fails at any sub-step,
\* a commit and a boot switch that fail each end the session (image_size
\* 0), leave the handle of ota_handle released, notify failure exactly once
\* and leave the boot partition and the restart tasks as they were.
C17_ErrorAborts ==
    [][(\E msg \in ChunkMsgs \cup FinishMsgs :
          /\ image_size # 0
          /\ OtaWritten(msg[1])
          /\ OtaErrorInFlight(msg, ota_fault')
          /\ OtaWrite(msg, ota_fault')) =>
            /\ image_size' = 0
            /\ ~ota_handle_open'
            /\ ota_handles' = IF ota_handle_open THEN ota_handles - 1 ELSE ota_handles
            /\ ota_out' = <<0>>
            /\ UNCHANGED <<boot_partition, restart_tasks>>]_vars

\* a flash write failed after part of the image had been written
C17_Witness ==
    /\ ota_type = 2
    /\ ota_fault = "esp_ota_write"
    /\ bytes_written > 0
    /\ image_size = 0
    /\ ~ota_handle_open
    /\ ota_out = <<0>>

\* a write to the OTA characteristic was handled in this step
OtaHandled == ota_seq' # ota_seq /\ restart_tasks' >= restart_tasks

\* the handler notified success in this step
SuccessNotified == \E i \in 1..Len(ota_out') : ota_out'[i] = 1

\* C18: a handler that notifies success has committed the write and marked
\* the partition, and creates the restart task; a failing commit leaves the
\* partition unmarked and a failing boot switch comes after the commit and
\* notifies no success; no handler shuts a transport down or restarts; the
\* restart task exists only after a success, shuts down Bluetooth Classic
\* and then BLE, and restarts only after both.
C18_SuccessOrder ==
    /\ [](restart_down \in {<<>>, <<"bt">>, <<"bt", "ble">>, <<"bt", "ble", "grace">>})
    /\ [](restart_down # <<>> => restart_tasks > 0)
    /\ [][/\ OtaHandled =>
              /\ UNCHANGED <<restart_down, running_partition>>
              /\ SuccessNotified =>
                    /\ ota_out' = <<1>>
                    /\ ota_fault' = "none"
                    /\ ~ota_handle_open'
                    /\ boot_partition' = 1 - running_partition
                    /\ restart_tasks' = restart_tasks + 1
              /\ ~SuccessNotified => UNCHANGED <<boot_partition, restart_tasks>>
              /\ ota_fault' = "esp_ota_set_boot_partition" => ~ota_handle_open'
          /\ restart_down' # restart_down /\ restart_down' # <<>> =>
              /\ restart_tasks > 0
              /\ UNCHANGED <<running_partition, boot_partition, ota_out>>
          /\ restart_tasks > 0 /\ restart_tasks' = 0 =>
              /\ restart_down = <<"bt", "ble", "grace">>
              /\ running_partition' = boot_partition]_vars

\* the firmware runs from the partition a successful Finish marked, after
\* the restart task restarted it
C18_Witness ==
    /\ running_partition = 1
    /\ boot_partition = 1
    /\ restart_tasks = 0
    /\ ota_seq = 0

----------------------------------------------------------------------------
\* Claims about the sweep's deep sleep and the pairing handler

\* C19: the sweep decides to sleep exactly when its test finds no peer
\* recorded and the sampled idle time at least disconnected_idle_timeout;
\* it then shuts down Bluetooth Classic, then BLE, and enters deep sleep
\* after both, which it does once the two calls have returned; a sweep that
\* finds a peer recorded does not sleep.
C19_SleepWhenIdle ==
    /\ [](sw_down \in {<<>>, <<"bt">>, <<"bt", "ble">>, <<"bt", "ble", "grace">>})
    /\ [](sw_down # <<>> => sw_pc = "sleep")
    /\ [](asleep => sw_down = <<"bt", "ble", "grace">>)
    /\ [][/\ sw_pc = "test" /\ sw_pc' # "test" =>
              (sw_pc' = "sleep" <=>
                  connected_client = None /\ sw_idle >= disconn_timeout)
          /\ sw_pc' = "sleep" => sw_pc \in {"test", "sleep"}
          /\ sw_pc = "sleep" => sw_pc' = "sleep"]_vars
    /\ [](sw_pc = "sleep" => <>(asleep \/ assert_failed))

\* the device sleeps after a sweep that found nobody connected
C19_Witness ==
    /\ asleep
    /\ sw_down = <<"bt", "ble", "grace">>
    /\ connected_client = None
    /\ sw_idle >= disconn_timeout

\* the addresses of the authentications that failed, in order
RECURSIVE FailedPeers(_)
FailedPeers(events) ==
    IF events = <<>> THEN <<>>
    ELSE LET ev == Head(events)
         IN  (IF ev.event = "AUTH_CMPL_EVT" /\ ~ev.success THEN <<ev.bd_addr>> ELSE <<>>)
                 \o FailedPeers(Tail(events))

\* C20: an authentication that completes with failure makes the handler
\* request the disconnect of the peer of that event, once, within the call;
\* one that completes with success, and every other GAP event, makes it
\* request nothing and change nothing.
C20_AuthFailureDisconnects ==
    /\ [](gap_disconnects = FailedPeers(gap_handled))
    /\ [][gap_handled' # gap_handled =>
            LET ev == gap_handled'[Len(gap_handled')]
            IN  /\ gap_handled' = Append(gap_handled, ev)
                /\ IF ev.event = "AUTH_CMPL_EVT" /\ ~ev.success
                   THEN gap_disconnects' = Append(gap_disconnects, ev.bd_addr)
                   ELSE gap_disconnects' = gap_disconnects
                /\ UNCHANGED <<otaVars, sessionVars, sweepVars, btVars, framerVars,
                               configVars>>]_vars

\* peer 1 authenticated, then peer 2 failed to and was disconnected
C20_Witness ==
    /\ Len(gap_handled) = 2
    /\ gap_handled[1] = [event |-> "AUTH_CMPL_EVT", success |-> TRUE, bd_addr |-> 1]
    /\ gap_handled[2] = [event |-> "AUTH_CMPL_EVT", success |-> FALSE, bd_addr |-> 2]
    /\ gap_disconnects = <<2>>

\* the refresh of the activity clock by a server callback or by the custom
\* GATTS handler
ActivityRefreshed == last_activity_time' = now

\* the reset of the activity clock by a sweep that forced a disconnect
SweepResetAfterForced == SweepReset /\ last_forced_at = sw_now

\* C21: the activity clock is set to the current time by the custom GATTS
\* handler on every read, write, executed-write and confirmation event, by
\* onConnect when it records the peer and by onDisconnect; the handler leaves
\* it alone on every other GATT event; and every other change of the clock is
\* the reset by a sweep that has just forced a disconnect.
C21_ActivityRefresh ==
    /\ [][\A event \in {"READ_EVT", "WRITE_EVT", "EXEC_WRITE_EVT"} :
                PeerGattsEvent(event) => ActivityRefreshed]_vars
    /\ [][ConfGattsEvent \/ DebugLogEnable => ActivityRefreshed]_vars
    /\ [][(onConnect /\ ~assert_failed') \/ onDisconnectAdvertise => ActivityRefreshed]_vars
    /\ [][\A event \in {"MTU_EVT", "RESPONSE_EVT"} :
                PeerGattsEvent(event) \/ StackGattsEvent(event)
                    => UNCHANGED last_activity_time]_vars
    /\ [][last_activity_time' # last_activity_time =>
            \/ ActivityRefreshed /\
                  \/ \E event \in {"READ_EVT", "WRITE_EVT", "EXEC_WRITE_EVT"} :
                        PeerGattsEvent(event)
                  \/ ConfGattsEvent
                  \/ DebugLogEnable
                  \/ onConnect
                  \/ onDisconnectAdvertise
            \/ SweepResetAfterForced]_vars

\* a peer that was disconnected by the sweep before is connected, has enabled
\* the Debug Log notifications, and the clock was refreshed this second
C21_Witness ==
    /\ connected_client # None
    /\ link = connected_client
    /\ getNotifications(cccd[DebugLogDescriptor])
    /\ last_forced_at >= 0
    /\ now > last_forced_at
    /\ last_activity_time = now
    /\ btc_queue = <<>>
    /\ "data" \in log_forwarded

\* the BLE event task takes the confirmation of a Debug Log notification
DebugLogConfirmed ==
    /\ NextEvent("conf")
    /\ Head(btc_queue) = ConfEvt("debug_log")
    /\ ConfGattsEvent

\* C22: the confirmation of a Debug Log notification, whatever line of the
\* firmware the notification carried, leaves the activity clock alone.
C22_LogNeverActivity ==
    [][DebugLogConfirmed => UNCHANGED last_activity_time]_vars

\* the peer enabled the Debug Log notifications and has been idle since; a
\* line logged by the data callback was notified and its confirmation waits
C22_Witness ==
    /\ connected_client # None
    /\ link = connected_client
    /\ getNotifications(cccd[DebugLogDescriptor])
    /\ "data" \in log_forwarded
    /\ btc_queue = <<ConfEvt("debug_log")>>
    /\ now > last_activity_time

\* C23: no line logged inside the custom GAP handler or inside the custom
\* GATTS handler is handed to the output callback of the Debug Log, which
\* notifies, while the handler is executing.
C23_NoNotifyInCallback == "gap" \notin log_forwarded /\ "gatts" \notin log_forwarded

\* the authentication of a connected peer that had enabled the Debug Log
\* notifications completed, and the handler's line was notified
C23_Witness ==
    /\ link # None
    /\ getNotifications(cccd[DebugLogDescriptor])
    /\ gap_handled # <<>>
    /\ "gap" \in log_forwarded
    /\ ConfEvt("debug_log") \in {btc_queue[i] : i \in 1..Len(btc_queue)}

\* the sweep passes connected_client->data() to esp_ble_gap_disconnect
SweepUsesPeer == sw_pc = "disconnect" /\ sw_pc' = "reset"

\* the sweep writes its sampled time into last_activity_time
SweepWritesClock == sw_pc = "reset" /\ sw_pc' = "delay"

\* C24: the sweep uses the identity of the peer only while the peer it found
\* is still recorded, and its reset of the activity clock never replaces a
\* timestamp newer than the time it sampled.
C24_SweepExclusive ==
    /\ [][SweepUsesPeer => connected_client # None]_vars
    /\ [][SweepWritesClock => last_activity_time <= sw_now]_vars

\* the sweep is about to name the peer, which a disconnect event has cleared
\* since its test
C24_Witness ==
    /\ sw_pc = "disconnect"
    /\ connected_client = None
    /\ last_activity_time <= sw_now

\* the sweep is about to reset a clock that an event refreshed after its sample
C24_WitnessClock ==
    /\ sw_pc = "reset"
    /\ last_activity_time > sw_now

\* a write handler of the Restart, Sleep or OTA characteristic ran in this step
ShutdownRequested ==
    \/ restart_tasks' > restart_tasks
    \/ sleep_tasks' > sleep_tasks
    \/ ota_seq' # ota_seq /\ restart_tasks' >= restart_tasks

\* esp_restart() was called in this step
Restarted == restart_tasks > 0 /\ restart_tasks' = 0

\* esp_deep_sleep_start() was called in this step
FellAsleep == ~asleep /\ asleep'

\* what a task has completed of its shutdown is a prefix of: Bluetooth
\* Classic down, BLE down, grace period over
ShutdownPrefix(down) ==
    down \in {<<>>, <<"bt">>, <<"bt", "ble">>, <<"bt", "ble", "grace">>}

\* C25: the handlers of the Restart, Sleep and OTA characteristics restart
\* nothing, put nothing to sleep and shut nothing down themselves; only the
\* restart task, the sleep task and the bleTimeout task do, each shutting
\* down Bluetooth Classic, then BLE, then waiting the grace period, and the
\* restart or deep sleep comes only after all three.
C25_GracefulShutdown ==
    /\ [](ShutdownPrefix(restart_down) /\ ShutdownPrefix(sleep_down) /\ ShutdownPrefix(sw_down))
    /\ [](restart_down # <<>> => restart_tasks > 0)
    /\ [](sleep_down # <<>> => sleep_tasks > 0)
    /\ [](sw_down # <<>> => sw_pc = "sleep")
    /\ [][ShutdownRequested =>
            /\ ~Restarted /\ ~FellAsleep
            /\ UNCHANGED <<restart_down, sleep_down, sw_down, running_partition, link,
                           advertising>>]_vars
    /\ [][Restarted => restart_down = <<"bt", "ble", "grace">>]_vars
    /\ [][FellAsleep =>
            \/ sleep_tasks > 0 /\ sleep_down = <<"bt", "ble", "grace">>
            \/ sw_pc = "sleep" /\ sw_down = <<"bt", "ble", "grace">>]_vars

\* the firmware restarted into the image of an update, and then the sleep
\* task of a Sleep write put it to sleep
C25_Witness ==
    /\ running_partition = 1
    /\ asleep
    /\ sleep_tasks > 0
    /\ sleep_down = <<"bt", "ble", "grace">>
    /\ sw_down = <<>>

\* connect_task names a task that is attempting to connect or monitoring
\* the link
ConnectTaskAlive ==
    /\ connect_task # None
    /\ connect_task <= Len(conns)
    /\ conns[connect_task].pc \in {"retry", "report", "monitor"}

\* the BLE event task takes a step of a read of BT Connect
BtConnectReadStepped == bt_op = "read" /\ bt_step' # bt_step

\* C26: a read of BT Connect while a connect attempt is in progress or a
\* link is being monitored leaves the connect task, its pending
\* notifications and connect_task unchanged.
C26_ReadsPure ==
    [][BtConnectReadStepped /\ ConnectTaskAlive => UNCHANGED <<connect_task, conns>>]_vars

\* a read of BT Connect is about to notify the task of a connect attempt
\* that is still retrying
C26_Witness ==
    /\ bt_op = "read"
    /\ bt_step = "ic_notify"
    /\ bt_h = connect_task
    /\ ConnectTaskAlive
    /\ conns[connect_task].pc = "retry"
    /\ ~bt_client

\* ---- C28
\* the value a four-byte payload spells, lowest byte first
PinOf(data) == data[1] + 256 * (data[2] + 256 * (data[3] + 256 * data[4]))

\* the step is a write of data to the Config PIN characteristic
PinWritten(data) == SettingWrite(X1_GATT_UUID_CONFIG_PIN_CODE, data)

\* C28: a write to the Config PIN characteristic stores the value of its
\* payload if and only if the payload has exactly 4 bytes and its
\* little-endian value is at most 999999; every other payload leaves the
\* stored PIN as it was, and no other access to the settings changes it.
C28_PinStoredIff ==
    [][/\ \A data \in SettingPayloads :
              PinWritten(data) =>
                  pin_code' = IF Len(data) = 4 /\ PinOf(data) <= 999999
                              THEN PinOf(data) ELSE pin_code
       /\ (pin_code' # pin_code) =>
              \E data \in SettingPayloads :
                  PinWritten(data) /\ Len(data) = 4 /\ PinOf(data) <= 999999]_vars

\* the largest PIN was written and is stored
C28_Witness ==
    /\ set_char = "ConfigPinCode"
    /\ set_op = "write"
    /\ set_data = <<63, 66, 15, 0>>
    /\ pin_code = 999999

\* a PIN of 1000000 was written after a valid one and the valid one is kept
C28_WitnessRejected ==
    /\ set_char = "ConfigPinCode"
    /\ set_op = "write"
    /\ set_data = <<64, 66, 15, 0>>
    /\ pin_code = 0

\* ---- C29
\* C29: the two idle timeouts are exposed under two distinct UUIDs; a write
\* to the characteristic of one UUID changes only that timeout and never
\* the other, and a read of the characteristic of each UUID returns the
\* stored value of its own timeout.
C29_TimeoutsIndependent ==
    [][/\ \A data \in SettingPayloads :
              SettingWrite(X1_GATT_UUID_CONFIG_CON_IDLE, data) =>
                  UNCHANGED disconn_timeout
       /\ \A data \in SettingPayloads :
              SettingWrite(X1_GATT_UUID_CONFIG_DISCON_IDLE, data) =>
                  UNCHANGED conn_timeout
       /\ SettingRead(X1_GATT_UUID_CONFIG_CON_IDLE) =>
              set_value' = Uint32Bytes(conn_timeout)
       /\ SettingRead(X1_GATT_UUID_CONFIG_DISCON_IDLE) =>
              set_value' = Uint32Bytes(disconn_timeout)]_vars

\* a write under the UUID of the connected idle timeout has set the
\* disconnected idle timeout, and the connected one is still the default
C29_Witness ==
    /\ set_uuid = X1_GATT_UUID_CONFIG_CON_IDLE
    /\ set_op = "write"
    /\ set_char = "ConfigDisconnectedIdleTimeout"
    /\ set_data = <<5, 0, 0, 0>>
    /\ disconn_timeout = 5
    /\ conn_timeout = DEFAULT_CONNECTED_IDLE_TIME

\* ---- C27
\* the step is a write of a wrong length to one of the six characteristics
WrongLengthWrite ==
    \/ \E uuid \in SettingUuids : \E data \in CutPayloads :
          Len(data) # 4 /\ SettingWrite(uuid, data)
    \/ \E data \in CutAddresses : Len(data) \in 1..5 /\ AddressWrite(data)
    \/ BtScanWrite(<<>>)
    \/ BtConnectWrite(<<>>)
    \/ OtaWrite(<<>>, "none")

\* the stored settings
storedSettings == <<pin_code, conn_timeout, disconn_timeout, nvs_addr, nvs_name>>

\* the state of the scan and connect engines, of the update session and of
\* the tasks that restart or put to sleep
engineState ==
    <<can_scan, scan_task, scans, discovery, connect_task, conns, bt_client, bt_op,
      bt_step, bt_crashed, is_scanning, discs, bt_sent,
      image_size, bytes_written, sha_ctx, sha_live, ota_handle_open, ota_handles,
      ota_flash, boot_partition, running_partition, restart_tasks, restart_down,
      shutdownVars, framerVars>>

\* C27: a write of an invalid length changes no state: a PIN or idle timeout
\* write whose length is not 4, a Target Address write of 1 to 5 bytes, and
\* a BT Scan, BT Connect or OTA write without a byte leave every stored
\* setting and the state of every engine as they were.
C27_WrongLengthIgnored ==
    [][UNCHANGED <<storedSettings, engineState>> \/ ~WrongLengthWrite]_vars

\* a PIN of five bytes was written and the stored settings are the
\* defaults, while a connect task exists, an update session is open and a
\* target address is stored
C27_Witness ==
    /\ set_char = "ConfigPinCode"
    /\ set_op = "write"
    /\ Len(set_data) = 5
    /\ pin_code = DEFAULT_PIN
    /\ Len(conns) = 1
    /\ image_size > 0
    /\ nvs_addr # <<>>

\* BT Connect was written without a byte while the connect task exists and
\* the last OTA write had no byte either, in an open session
C27_WitnessEmpty ==
    /\ wr_empty = "BtConnect"
    /\ Len(conns) = 1
    /\ ota_type = 0
    /\ ota_seq = 0
    /\ image_size > 0

\* BT Scan was written without a byte while the scan goes on
C27_WitnessScan ==
    /\ wr_empty = "BtScan"
    /\ is_scanning
    /\ scan_task # None

\* the Target Address was written with five bytes and the stored address
\* is the one written before
C27_WitnessAddress ==
    /\ Len(cfg_last) = 5
    /\ nvs_addr = <<0, 6, 102, 0, 0, 1>>

\* ---- C30
\* a scan is in progress beyond doubt: its task polls, it was not
\* cancelled, and its discovery runs
ScanRunning ==
    \E id \in 1..Len(scans) :
        /\ scans[id].pc = "poll"
        /\ ~scans[id].notify
        /\ discovery = id
        /\ scan_task = id

\* a scan was started whose finished callback has not run
ScanUnfinished == \E id \in 1..Len(scans) : scans[id].pc # "deleted"

\* C30: a read of BT Scan returns 1 exactly when a scan is in progress, 0xFF
\* when none is in progress and scanning is unavailable for good, and 0
\* otherwise, whatever the sequence of starts, cancels, restarts and natural
\* ends before it.  (A scan that was cancelled and whose callback has not
\* run may count either way.)
C30_ScanStateByte ==
    [][BtScanRead =>
          /\ ScanRunning => set_value' = <<1>>
          /\ (set_value' = <<1>>) => ScanUnfinished
          /\ (set_value' = <<255>>) => ~can_scan
          /\ (set_value' = <<0>>) => can_scan]_vars

\* the read returned 0 while the second scan is in progress, after the
\* finished callback of the first, cancelled scan ran
C30_Witness ==
    /\ bt_last = "read"
    /\ set_char = "BtScan"
    /\ set_value = <<0>>
    /\ ScanRunning
    /\ \E id \in 1..Len(scans) : scans[id].fin = <<TRUE>>


(***************************************************************************)
(* Claims about the BT Connect characteristic and the OTA start.           *)
(***************************************************************************)
\* a callback of a connect task took place in the step
ConnectChangedIn(id) ==
    /\ id <= Len(conns)
    /\ conns'[id].changed # conns[id].changed

\* C31: a BT Connect write with first byte 0 starts a disconnect task and
\* touches no connect task; a write with a nonzero first byte enters
\* connect() only if a target address is stored, the task it creates has
\* that address, and scanning is switched off by nothing else; every
\* on_changed callback sets and notifies the state byte, 1 for connected and
\* 0 for disconnected, and nothing else changes the value.
C31_ConnectWrite ==
    /\ [][BtConnectWrite(<<0>>) =>
            /\ discs' = discs (+) SetToBag({[pc |-> "stop", h |-> None]})
            /\ UNCHANGED <<conns, connect_task, can_scan, bt_op, set_value>>]_vars
    /\ [][/\ bt_op' = "connect" /\ bt_op = "idle" => nvs_addr # <<>> /\ ~can_scan'
          /\ can_scan' # can_scan => bt_op' = "connect" /\ nvs_addr # <<>>
          /\ Len(conns') > Len(conns) =>
                /\ nvs_addr # <<>>
                /\ conns'[Len(conns')].address = nvs_addr]_vars
    /\ [][/\ \A id \in 1..Len(conns) :
                ConnectChangedIn(id) =>
                    /\ set_char' = "BtConnect"
                    /\ set_op' = "notify"
                    /\ set_value' = <<IF conns'[id].changed[Len(conns'[id].changed)]
                                      THEN 1 ELSE 0>>
          /\ set_value' # set_value => \E id \in 1..Len(conns) : ConnectChangedIn(id)]_vars

\* a connect to the stored address was notified as 1, then as 0
C31_Witness ==
    \E id \in 1..Len(conns) :
        /\ conns[id].address = <<0, 6, 102, 0, 0, 1>>
        /\ conns[id].changed = <<TRUE, FALSE>>
        /\ set_char = "BtConnect"
        /\ set_value = <<0>>

\* a connect is up and notified as 1 while a disconnect is requested
C31_WitnessConnected ==
    \E id \in 1..Len(conns) :
        /\ conns[id].changed = <<TRUE>>
        /\ set_value = <<1>>
        /\ discs # EmptyBag

\* a Start that opened the partition was written in the step
StartOpened ==
    /\ ota_seq' # ota_seq
    /\ ota_type' = 1
    /\ ota_handles' = ota_handles + 1

\* the size bytes of the Start messages written
StartSizes == {SubSeq(msg, 3, 6) : msg \in StartMsgs \cup WideStartMsgs}

\* C32: a Start that opens the partition leaves a session that receives
\* (image_size nonzero, so that a Chunk or Finish is taken for it) with
\* bytes_written 0, a fresh digest and the little-endian value of its size
\* bytes as image_size.
C32_StartReceives ==
    [][StartOpened =>
          /\ image_size' # 0
          /\ bytes_written' = 0
          /\ sha_ctx' = <<>> /\ sha_live'
          /\ \E b \in StartSizes :
                /\ SizeLow(image_size') = b[1] + 256 * b[2]
                /\ SizeHigh(image_size') = b[3] + 256 * b[4]]_vars

\* the part of C32 that holds: whatever the size bytes, a Start written as
\* <<1, 1, b1, b2, b3, b4>> that opens the partition sets bytes_written to
\* 0, resets the digest and sets image_size to the little-endian value
C32_StartSize ==
    [][\A msg \in WideStartMsgs :
          OtaWrite(msg, "none") =>
              /\ bytes_written' = 0
              /\ sha_ctx' = <<>> /\ sha_live'
              /\ ota_handle_open'
              /\ SizeLow(image_size') = msg[3] + 256 * msg[4]
              /\ SizeHigh(image_size') = msg[5] + 256 * msg[6]]_vars

\* and a chunk written to a session of nonzero size is added to the flash
\* if and only if it ends within that size
C32_ChunksUpToSize ==
    [][/\ ota_seq' # ota_seq
       /\ ota_type' = 2
       /\ ota_fault' = "none"
       /\ image_size # 0
       => LET within == \/ SizeHigh(image_size) > 0
                        \/ Len(ota_flash') <= SizeLow(image_size)
          IN  /\ Len(ota_flash') >= Len(ota_flash)
              /\ bytes_written' = Len(ota_flash')
              /\ within
              /\ image_size' = 0 => Len(ota_flash') = Len(ota_flash)]_vars

\* a Start with size bytes 0, 0, 0, 0 opened the partition: the handle is
\* open and image_size is 0
C32_Witness ==
    /\ ota_type = 1
    /\ ota_fault = "none"
    /\ ota_handle_open
    /\ image_size = 0

\* a Start with the top bit of the size set opened the partition and a
\* chunk was written
C32_WitnessWide ==
    /\ SizeHigh(image_size) = 32768
    /\ bytes_written = MaxChunk


(***************************************************************************)
(* Claims about errors of the settings store.                              *)
(***************************************************************************)
\* C33: no write to the Target Address characteristic ends by an exception
\* of the settings store, and after a write of no bytes the address and the
\* name are both absent, whatever was stored before.
C33_ClearCompletes ==
    /\ ~cfg_threw
    /\ cfg_written /\ cfg_last = <<>> => nvs_addr = <<>> /\ nvs_name = <<>>

\* a write of no bytes, with no address stored, ended by the exception
C33_Witness ==
    /\ cfg_written
    /\ cfg_last = <<>>
    /\ nvs_addr = <<>>
    /\ nvs_name = <<>>
    /\ cfg_threw

\* the part of C33 that holds: the store is cleared after a write of no
\* bytes, and a write with an address ends without an exception
C33_ClearedAfterEmptyWrite ==
    /\ cfg_written /\ cfg_last = <<>> => nvs_addr = <<>> /\ nvs_name = <<>>
    /\ cfg_written /\ cfg_last # <<>> => ~cfg_threw


(***************************************************************************)
(* Claims about the flash handle and the end of an OTA session.            *)
(***************************************************************************)
\* C34: a flash write handle is open exactly while a session is active
\* (image_size nonzero), and no more than one is open.
C34_HandleIffSession ==
    /\ ota_handles <= 1
    /\ ota_handles > 0 <=> image_size # 0

\* a Start was written to a session that was receiving: two handles are
\* open, and the session holds the second
C34_Witness ==
    /\ ota_type = 1
    /\ ota_handles = 2
    /\ ota_handle_open
    /\ image_size # 0

\* a Start of size 0 opened the partition: a handle is open and no session
\* is active
C34_WitnessZero ==
    /\ ota_type = 1
    /\ ota_handles = 1
    /\ image_size = 0

\* the session whose Finish reported success is still there: its handle
\* was closed by esp_ota_end and image_size is nonzero
CommittedSession == image_size # 0 /\ ~ota_handle_open

\* C35: the Finish that reports success ends the session (image_size is 0
\* after it), so that a Chunk or Finish written before the restart is
\* dropped: it notifies nothing and asks for no restart.
C35_SuccessEndsSession ==
    [][/\ ota_out' = <<1>> => image_size' = 0
       /\ CommittedSession /\ ota_seq' # ota_seq /\ ota_type' \in {2, 3} =>
             /\ ota_out' = <<>>
             /\ restart_tasks' = restart_tasks]_vars

\* a Chunk or Finish was handled against the session that had reported
\* success, and a failure was notified while its restart is pending
C35_Witness ==
    /\ ota_type \in {2, 3}
    /\ ota_out = <<0>>
    /\ image_size = 0
    /\ bytes_written = Len(ota_flash)
    /\ bytes_written > 0
    /\ boot_partition # running_partition
    /\ restart_tasks = 1
    /\ restart_down = <<>>
    /\ ota_handles = 0


(***************************************************************************)
(* Claims about the handles scan_task and connect_task.                    *)
(***************************************************************************)
\* the connect task id delivered on_changed(false) in the step, after its
\* on_changed(true)
ReportedDown(id) ==
    /\ conns[id].changed = <<TRUE>>
    /\ conns'[id].changed = <<TRUE, FALSE>>

\* C36: with no disconnect() and no newer connect() after the link came up,
\* a connect task that reported on_changed(true) reports on_changed(false)
\* only when the link is lost; isConnected() and write() do not make it.
C36_DownOnlyWhenLost ==
    [][\A id \in 1..Len(conns) :
          ReportedDown(id) /\ connect_task \in {None, id} /\ discs = EmptyBag => ~bt_client]_vars

\* a connect task reported on_changed(false) on a notification while the
\* link is up, and no disconnect() was ever called
C36_Witness ==
    \E id \in 1..Len(conns) :
        /\ conns[id].changed = <<TRUE, FALSE>>
        /\ conns[id].notified
        /\ bt_client
        /\ bt_last = "connect"

\* C37: between two calls of the BLE event task scan_task is null or names
\* the scan started last, which has not ended; a scan task that ends by itself stops no discovery but its own
\* and clears no handle but its own; and when cancelScan() has returned, no
\* scan goes on polling without a notification.
C37_HandleOfNewestScan ==
    /\ [](bt_op = "idle" /\ scan_task # None =>
             /\ scan_task = Len(scans)
             /\ scans[scan_task].pc # "deleted")
    /\ [][\A id \in 1..Len(scans) :
             /\ scans[id].pc = "after" /\ scans'[id].pc = "clear" => discovery \in {None, id}
             /\ scans[id].pc = "clear" /\ scans'[id].pc = "callback" =>
                   scan_task \in {None, id}]_vars
    /\ [][bt_op = "cancel" /\ bt_op' = "idle" =>
             \A id \in 1..Len(scans) : scans'[id].pc = "poll" => scans'[id].notify]_vars

\* the second scan is polling, was never notified, and its handle was
\* cleared by the first scan, which ended by itself
C37_Witness ==
    /\ Len(scans) = 2
    /\ scans[2].pc = "poll"
    /\ ~scans[2].given
    /\ scan_task = None
    /\ ~scans[1].canceled
    /\ scans[1].pc \in {"callback", "deleted"}
    /\ bt_op = "idle"

\* the connect tasks that attempt to connect or monitor the link and have
\* no notification pending
ConnectTasksAtWork ==
    {id \in 1..Len(conns) : conns[id].pc \in {"retry", "report", "monitor"} /\ ~conns[id].notify}

\* C38: once a newer connect task exists, an earlier one makes no call of
\* SerialBT.connect and no on_changed(true); and no two tasks that were not
\* told to stop attempt or monitor at the same time.
C38_OneConnectTask ==
    /\ [][\A id \in 1..Len(conns) :
             id < Len(conns) =>
                 /\ conns'[id].i = conns[id].i
                 /\ conns'[id].changed \in {conns[id].changed, Append(conns[id].changed, FALSE)}]_vars
    /\ [](Cardinality(ConnectTasksAtWork) <= 1)

\* connect() was called again while the first task was in its retry loop
\* with an attempt left: the task was notified and is still retrying
C38_Witness ==
    /\ Len(conns) = 2
    /\ conns[1].pc = "retry"
    /\ conns[1].i < conns[1].n
    /\ conns[1].notify
    /\ connect_task = 2


(***************************************************************************)
(* Claims about the first sweep and the log suspension.                    *)
(***************************************************************************)
\* the later of the start of the firmware and the last connect, disconnect
\* or activity event
IdleSince == IF boot_time > last_activity_time THEN boot_time ELSE last_activity_time

\* C39: the idle time a sweep computes is the time since the later of the
\* start of the firmware and the last event, and the sweep decides to sleep
\* only with no peer connected and that idle time at the disconnected idle
\* timeout or above.
C39_SleepOnlyWhenIdle ==
    /\ [][sw_pc = "delay" /\ sw_pc' = "test" => sw_idle' = now - IdleSince]_vars
    /\ [][sw_pc = "test" /\ sw_pc' = "sleep" =>
             /\ connected_client = None
             /\ sw_idle >= disconn_timeout]_vars

\* the firmware started again, no event was recorded, and its first sweep
\* put it to sleep before the disconnected idle timeout had passed
C39_Witness ==
    /\ asleep
    /\ boot_time > 0
    /\ last_activity_time = 0
    /\ sw_now - boot_time < disconn_timeout
    /\ sw_idle >= disconn_timeout

\* the part of C39 that holds: the decision to sleep
C39_SleepDecision ==
    [][sw_pc = "test" /\ sw_pc' = "sleep" =>
          /\ connected_client = None
          /\ sw_idle >= disconn_timeout]_vars

\* the custom GATTS handler is between its suspendOutputCallback() and the
\* destructor of its suspender
GattsHoldsSuspension == btc_pc \in {"gatts", "gatts_end"}

\* the bleTimeout task is between its suspendOutputCallback() and the
\* destructor of its suspender
SweepHoldsSuspension == log_pc \in {"in", "printed"}

\* C40: while a suspender of the custom GATTS handler or of the idle sweep
\* is alive the suspension flag stays set, and no step taken while the
\* handler holds its suspension hands a line to the output callback.
C40_SuspensionHeld ==
    /\ [](GattsHoldsSuspension \/ SweepHoldsSuspension => output_callback_suspended)
    /\ [][GattsHoldsSuspension => log_forwarded' = log_forwarded]_vars

\* the sweep's suspender was destroyed while the handler held its own, and
\* the line the handler logged went to the output callback
C40_Witness ==
    /\ GattsHoldsSuspension
    /\ ~SweepHoldsSuspension
    /\ ~output_callback_suspended
    /\ "gatts" \in log_forwarded
    /\ "gap" \notin log_forwarded

====
